---- MODULE Spec2Model ----
(***************************************************************************)
(* Model of the crunch asset pipeline: path validation                     *)
(* (src/server/utils/security.ts), the metadata store (metadata.ts), the   *)
(* thumbnail cache (src/server/utils/cache.ts), the transcoder             *)
(* (src/optimizer.ts) and the HTTP handlers of server.ts.                  *)
(*                                                                         *)
(* JavaScript strings are sequences of one-character strings; the path     *)
(* functions are those of Node's path.posix, process.cwd() is Cwd.         *)
(***************************************************************************)
EXTENDS Integers, Sequences, FiniteSets, TLC

VARIABLES
    vPath,      \* validateImagePath call: the relativePath argument
    vResult,    \* validateImagePath call: the returned object (NoResult before)
    sPartial,   \* saveMetadata call: the metadata argument
    sPrev,      \* saveMetadata call: the record stored before the call
    sResult,    \* saveMetadata call: the returned record (NoRecord before)
    files,      \* the filesystem: absolute path -> content of a regular file
    dirs,       \* the filesystem: absolute paths of the directories
    meta,       \* .metadata: record file name -> stored JSON object
    thumbs,     \* thumbnailCache.cache: Map entries in insertion order
    metaCache,  \* metadataCache.cache: Map entries in insertion order
    pending,    \* thumbnail generations suspended in sharp(...).toBuffer()
    clock,      \* Date.now()
    steps,      \* number of requests served so far
    last,       \* the last request and its response
    used        \* history: the keys of thumbs, least recently accessed first

vars == <<vPath, vResult, sPartial, sPrev, sResult, files, dirs, meta, thumbs,
          metaCache, pending, clock, steps, last, used>>

-----------------------------------------------------------------------------
(* Bounds of the model *)

MaxPieces == 4
MaxSteps == 3
MaxPending == 1
MaxBulk == 1
\* maxSize of the cache in the calls on the caches
CacheCap == 2
MaxCacheOps == 3
MaxCacheClock == 2

\* requests and calls in a behaviour of SpecOptimize
MaxBatchSteps == 2

\* requests in a behaviour of SpecDerivative
MaxDerivativeSteps == 2

\* calls of saveMetadata in a behaviour of SpecConcurrent
MaxSaves == 2

-----------------------------------------------------------------------------
(* JavaScript string primitives *)

\* F applied to the value v: v is computed once however often F refers to it
Bind(v, F(_)) == F(v)

StartsWith(s, p) == Len(p) <= Len(s) /\ SubSeq(s, 1, Len(p)) = p

EndsWith(s, p) == Len(p) <= Len(s) /\ SubSeq(s, Len(s) - Len(p) + 1, Len(s)) = p

Includes(s, sub) ==
    \E i \in 1..(Len(s) - Len(sub) + 1) : SubSeq(s, i, i + Len(sub) - 1) = sub

\* s.substring(n): the characters from 0-based index n on
Substring(s, n) == SubSeq(s, n + 1, Len(s))

\* s.slice(0, n)
SliceTo(s, n) == SubSeq(s, 1, IF n < Len(s) THEN n ELSE Len(s))

\* s.lastIndexOf(c), 1-based; 0 when absent
LastIndexOf(s, c) ==
    IF \E i \in 1..Len(s) : s[i] = c
    THEN CHOOSE i \in 1..Len(s) : s[i] = c /\ \A j \in (i + 1)..Len(s) : s[j] # c
    ELSE 0

UpperChars == <<"A","B","C","D","E","F","G","H","I","J","K","L","M",
                "N","O","P","Q","R","S","T","U","V","W","X","Y","Z">>

LowerChars == <<"a","b","c","d","e","f","g","h","i","j","k","l","m",
                "n","o","p","q","r","s","t","u","v","w","x","y","z">>

LowerOf(c) ==
    IF \E i \in 1..26 : UpperChars[i] = c
    THEN LowerChars[CHOOSE i \in 1..26 : UpperChars[i] = c]
    ELSE c

ToLowerCase(s) == [i \in 1..Len(s) |-> LowerOf(s[i])]

\* s.replace(/<from>/g, to) for a one-character pattern
ReplaceChar(s, from, to) == [i \in 1..Len(s) |-> IF s[i] = from THEN to ELSE s[i]]

\* s.replace(/<pat>/g, rep) for a literal pattern: leftmost matches, not overlapping
RECURSIVE ReplaceAll(_, _, _)
ReplaceAll(s, pat, rep) ==
    IF Len(s) < Len(pat) \/ Len(pat) = 0 THEN s
    ELSE IF SubSeq(s, 1, Len(pat)) = pat
         THEN rep \o ReplaceAll(Substring(s, Len(pat)), pat, rep)
         ELSE <<s[1]>> \o ReplaceAll(Substring(s, 1), pat, rep)

\* s.replace(/^\/+/, "")
RECURSIVE StripLeadingSlashes(_)
StripLeadingSlashes(s) ==
    IF Len(s) > 0 /\ s[1] = "/" THEN StripLeadingSlashes(Substring(s, 1)) ELSE s

\* s.replace(/^\//, "")
StripLeadingSlash(s) == IF Len(s) > 0 /\ s[1] = "/" THEN Substring(s, 1) ELSE s

\* s.trim()
RECURSIVE TrimStart(_)
TrimStart(s) == IF Len(s) > 0 /\ s[1] = " " THEN TrimStart(Substring(s, 1)) ELSE s

RECURSIVE TrimEnd(_)
TrimEnd(s) ==
    IF Len(s) > 0 /\ s[Len(s)] = " " THEN TrimEnd(SubSeq(s, 1, Len(s) - 1)) ELSE s

Trim(s) == TrimEnd(TrimStart(s))

-----------------------------------------------------------------------------
(* Node's path.posix *)

\* the segments of s between "/" characters, empty ones included
RECURSIVE Split(_)
Split(s) ==
    IF ~ \E i \in 1..Len(s) : s[i] = "/" THEN <<s>>
    ELSE LET i == CHOOSE k \in 1..Len(s) : s[k] = "/" /\ \A j \in 1..(k - 1) : s[j] # "/"
         IN <<SubSeq(s, 1, i - 1)>> \o Split(Substring(s, i))

RECURSIVE JoinSegs(_)
JoinSegs(segs) ==
    IF Len(segs) = 0 THEN <<>>
    ELSE IF Len(segs) = 1 THEN segs[1]
    ELSE segs[1] \o <<"/">> \o JoinSegs(Tail(segs))

\* normalizeString: drop "" and ".", let ".." remove the segment before it
RECURSIVE NormalizeSegs(_, _, _)
NormalizeSegs(segs, acc, allowAboveRoot) ==
    IF Len(segs) = 0 THEN acc
    ELSE LET seg == segs[1]
             rest == Tail(segs)
         IN IF seg = <<>> \/ seg = <<".">> THEN NormalizeSegs(rest, acc, allowAboveRoot)
            ELSE IF seg = <<".", ".">>
                 THEN IF Len(acc) > 0 /\ acc[Len(acc)] # <<".", ".">>
                      THEN NormalizeSegs(rest, SubSeq(acc, 1, Len(acc) - 1), allowAboveRoot)
                      ELSE IF allowAboveRoot
                           THEN NormalizeSegs(rest, Append(acc, seg), allowAboveRoot)
                           ELSE NormalizeSegs(rest, acc, allowAboveRoot)
                 ELSE NormalizeSegs(rest, Append(acc, seg), allowAboveRoot)

IsAbsolute(p) == Len(p) > 0 /\ p[1] = "/"

PathNormalize(p) ==
    IF Len(p) = 0 THEN <<".">>
    ELSE LET abs == IsAbsolute(p)
             trailing == p[Len(p)] = "/"
             body == JoinSegs(NormalizeSegs(Split(p), <<>>, ~abs))
         IN IF Len(body) = 0
            THEN IF abs THEN <<"/">> ELSE IF trailing THEN <<".", "/">> ELSE <<".">>
            ELSE (IF abs THEN <<"/">> ELSE <<>>) \o body
                 \o (IF trailing THEN <<"/">> ELSE <<>>)

\* path.join(a, b)
PathJoin(a, b) ==
    IF Len(a) = 0 /\ Len(b) = 0 THEN <<".">>
    ELSE IF Len(a) = 0 THEN PathNormalize(b)
    ELSE IF Len(b) = 0 THEN PathNormalize(a)
    ELSE PathNormalize(a \o <<"/">> \o b)

\* process.cwd()
Cwd == <<"/", "a", "p", "p">>

\* path.resolve(p)
PathResolve(p) ==
    LET full == IF IsAbsolute(p) THEN p
                ELSE IF Len(p) = 0 THEN Cwd ELSE Cwd \o <<"/">> \o p
    IN <<"/">> \o JoinSegs(NormalizeSegs(Split(full), <<>>, FALSE))

ResolvedSegs(p) == NormalizeSegs(Split(PathResolve(p)), <<>>, FALSE)

RECURSIVE CommonPrefixLen(_, _)
CommonPrefixLen(a, b) ==
    IF Len(a) = 0 \/ Len(b) = 0 \/ a[1] # b[1] THEN 0
    ELSE 1 + CommonPrefixLen(Tail(a), Tail(b))

\* path.relative(from, to)
PathRelative(from, to) ==
    LET f == ResolvedSegs(from)
        t == ResolvedSegs(to)
        n == CommonPrefixLen(f, t)
        ups == [i \in 1..(Len(f) - n) |-> <<".", ".">>]
    IN JoinSegs(ups \o SubSeq(t, n + 1, Len(t)))

\* path.basename(p)
PathBasename(p) ==
    LET nonSlash == {i \in 1..Len(p) : p[i] # "/"}
    IN IF nonSlash = {} THEN <<>>
       ELSE LET end == CHOOSE i \in nonSlash : \A j \in nonSlash : j <= i
                slashes == {i \in 1..end : p[i] = "/"}
                start == IF slashes = {} THEN 1
                         ELSE 1 + CHOOSE i \in slashes : \A j \in slashes : j <= i
            IN SubSeq(p, start, end)

\* path.dirname(p)
PathDirname(p) ==
    IF Len(p) = 0 THEN <<".">>
    ELSE LET hasRoot == p[1] = "/"
             \* the slashes (not the first character) with a non-slash somewhere after
             cands == {i \in 2..Len(p) :
                          p[i] = "/" /\ \E j \in (i + 1)..Len(p) : p[j] # "/"}
         IN IF cands = {} THEN (IF hasRoot THEN <<"/">> ELSE <<".">>)
            ELSE LET end == CHOOSE i \in cands : \A j \in cands : j <= i
                 IN IF hasRoot /\ end = 2 THEN <<"/", "/">> ELSE SubSeq(p, 1, end - 1)

\* path.extname(p)
PathExtname(p) ==
    LET b == PathBasename(p)
        i == LastIndexOf(b, ".")
    IN IF i <= 1 \/ b = <<".", ".">> THEN <<>> ELSE SubSeq(b, i, Len(b))

\* path.parse(p).name
PathParseName(p) ==
    LET b == PathBasename(p)
    IN SubSeq(b, 1, Len(b) - Len(PathExtname(p)))

-----------------------------------------------------------------------------
(* src/utils/helpers.ts, src/utils/constants.ts, src/server/utils/security.ts *)

OPTIMIZED_DIR == <<"o","p","t","i","m","i","z","e","d">>

ORIGINALS_DIR == <<"o","r","i","g","i","n","a","l","s">>

DotDot == <<".", ".">>

sanitizePath(relativePath) ==
    StripLeadingSlash(ReplaceAll(ReplaceAll(relativePath, DotDot, <<>>), <<"/", "/">>, <<"/">>))

ErrTraversal == "Invalid path: directory traversal detected"

ErrNoFile == "Invalid path: must include file path, not just directory"

ErrEmpty == "Invalid path: empty path after normalization"

ErrOutside == "Invalid path: outside allowed directory"

Invalid(err) == [valid |-> FALSE, filePath |-> <<>>, error |-> err]

\* a prefix handling that compares the base-directory name letter for letter
StripBasePrefixExactCase(normalizedPath, baseDirNormalized) ==
    IF StartsWith(normalizedPath, baseDirNormalized \o <<"/">>)
    THEN [bare |-> FALSE, path |-> Substring(normalizedPath, Len(baseDirNormalized) + 1)]
    ELSE IF normalizedPath = baseDirNormalized
    THEN [bare |-> TRUE, path |-> normalizedPath]
    ELSE IF StartsWith(normalizedPath, baseDirNormalized)
    THEN [bare |-> FALSE, path |-> Substring(normalizedPath, Len(baseDirNormalized))]
    ELSE [bare |-> FALSE, path |-> normalizedPath]

\* the base-directory prefix handling of validateImagePath: "invalid" stands for
\* the early return of the bare base-directory name
StripBasePrefix(normalizedPath, baseDirNormalized) ==
    LET lowPath == ToLowerCase(normalizedPath)
        lowBase == ToLowerCase(baseDirNormalized)
    IN IF StartsWith(lowPath, lowBase \o <<"/">>)
       THEN [bare |-> FALSE, path |-> Substring(normalizedPath, Len(baseDirNormalized) + 1)]
       ELSE IF lowPath = lowBase
       THEN [bare |-> TRUE, path |-> normalizedPath]
       ELSE IF StartsWith(lowPath, lowBase)
       THEN [bare |-> FALSE, path |-> Substring(normalizedPath, Len(baseDirNormalized))]
       ELSE [bare |-> FALSE, path |-> normalizedPath]

\* the first check of validateImagePath, on the raw input
RawTraversal(relativePath) ==
    Includes(relativePath, DotDot) \/ StartsWith(relativePath, <<"/">>)

\* the final check of validateImagePath, on the resolved paths
WithinBase(resolvedFilePath, resolvedBaseDir) ==
    StartsWith(resolvedFilePath, resolvedBaseDir)

\* a validateImagePath without the early return for the bare base-directory
\* name and without the check for an empty path
validateImagePathUnguarded(relativePath, baseDir) ==
    IF RawTraversal(relativePath) THEN Invalid(ErrTraversal)
    ELSE LET stripped == StripBasePrefix(ReplaceChar(relativePath, "\\", "/"),
                                         ReplaceChar(baseDir, "\\", "/"))
             normalizedPath == StripLeadingSlashes(stripped.path)
             sanitized == sanitizePath(normalizedPath)
             resolvedFilePath == PathResolve(PathJoin(baseDir, sanitized))
             resolvedBaseDir == PathResolve(baseDir)
         IN IF Includes(sanitized, DotDot) \/ StartsWith(sanitized, <<"/">>)
            THEN Invalid(ErrTraversal)
            ELSE IF ~ WithinBase(resolvedFilePath, resolvedBaseDir)
            THEN Invalid(ErrOutside)
            ELSE [valid |-> TRUE, filePath |-> resolvedFilePath, error |-> ""]

validateImagePath(relativePath, baseDir) ==
    IF RawTraversal(relativePath) THEN Invalid(ErrTraversal)
    ELSE LET stripped == StripBasePrefix(ReplaceChar(relativePath, "\\", "/"),
                                         ReplaceChar(baseDir, "\\", "/"))
             normalizedPath == StripLeadingSlashes(stripped.path)
             sanitized == sanitizePath(normalizedPath)
             resolvedFilePath == PathResolve(PathJoin(baseDir, sanitized))
             resolvedBaseDir == PathResolve(baseDir)
         IN IF stripped.bare THEN Invalid(ErrNoFile)
            ELSE IF Len(normalizedPath) = 0 \/ Len(Trim(normalizedPath)) = 0
            THEN Invalid(ErrEmpty)
            ELSE IF Includes(sanitized, DotDot) \/ StartsWith(sanitized, <<"/">>)
            THEN Invalid(ErrTraversal)
            ELSE IF ~ WithinBase(resolvedFilePath, resolvedBaseDir)
            THEN Invalid(ErrOutside)
            ELSE [valid |-> TRUE, filePath |-> resolvedFilePath, error |-> ""]

-----------------------------------------------------------------------------
(* Buffer.from(s).toString("base64") for ASCII strings.  AsciiChars lists   *)
(* the characters of codes 32 to 126; the two the model never uses are      *)
(* written out by name.                                                     *)

AsciiChars ==
    <<" ","!","dquote","#","$","%","&","'","(",")","*","+",",","-",".","/",
      "0","1","2","3","4","5","6","7","8","9",":",";","<","=",">","?",
      "@","A","B","C","D","E","F","G","H","I","J","K","L","M","N","O",
      "P","Q","R","S","T","U","V","W","X","Y","Z","[","\\","]","^","_",
      "backtick","a","b","c","d","e","f","g","h","i","j","k","l","m","n","o",
      "p","q","r","s","t","u","v","w","x","y","z","{","|","}","~">>

CharCode(c) == 31 + CHOOSE i \in 1..Len(AsciiChars) : AsciiChars[i] = c

Base64Chars ==
    <<"A","B","C","D","E","F","G","H","I","J","K","L","M","N","O","P",
      "Q","R","S","T","U","V","W","X","Y","Z","a","b","c","d","e","f",
      "g","h","i","j","k","l","m","n","o","p","q","r","s","t","u","v",
      "w","x","y","z","0","1","2","3","4","5","6","7","8","9","+","/">>

Sextet(n) == Base64Chars[n + 1]

RECURSIVE Base64(_)
Base64(s) ==
    IF Len(s) = 0 THEN <<>>
    ELSE LET b1 == CharCode(s[1])
         IN IF Len(s) = 1
            THEN <<Sextet(b1 \div 4), Sextet((b1 % 4) * 16), "=", "=">>
            ELSE LET b2 == CharCode(s[2])
                 IN IF Len(s) = 2
                    THEN <<Sextet(b1 \div 4), Sextet((b1 % 4) * 16 + b2 \div 16),
                           Sextet((b2 % 16) * 4), "=">>
                    ELSE LET b3 == CharCode(s[3])
                         IN <<Sextet(b1 \div 4), Sextet((b1 % 4) * 16 + b2 \div 16),
                              Sextet((b2 % 16) * 4 + b3 \div 64), Sextet(b3 % 64)>>
                            \o Base64(Substring(s, 3))

\* s.replace(/[/+=]/g, "")
RECURSIVE StripBase64Unsafe(_)
StripBase64Unsafe(s) ==
    IF Len(s) = 0 THEN <<>>
    ELSE IF s[1] \in {"/", "+", "="} THEN StripBase64Unsafe(Tail(s))
    ELSE <<s[1]>> \o StripBase64Unsafe(Tail(s))

-----------------------------------------------------------------------------
(* JavaScript values and objects.  A value is a record of one shape whatever *)
(* its kind; an object is a function from its own keys to values.           *)

Str(s) == [k |-> "string", s |-> s, n |-> 0, a |-> <<>>]

Num(n) == [k |-> "number", s |-> <<>>, n |-> n, a |-> <<>>]

Bool(b) == [k |-> "boolean", s |-> <<>>, n |-> IF b THEN 1 ELSE 0, a |-> <<>>]

Arr(a) == [k |-> "array", s |-> <<>>, n |-> 0, a |-> a]

\* new Date(ms).toISOString(): the instant, kept as its millisecond count
IsoDate(ms) == [k |-> "date", s |-> <<>>, n |-> ms, a |-> <<>>]

Undefined == [k |-> "undefined", s |-> <<>>, n |-> 0, a |-> <<>>]

EmptyObject == <<>>

\* o.f
Get(o, f) == IF f \in DOMAIN o THEN o[f] ELSE Undefined

\* { ...a, ...b }: own keys of b, undefined-valued ones included, win
Spread(a, b) ==
    [f \in (DOMAIN a) \cup (DOMAIN b) |-> IF f \in DOMAIN b THEN b[f] ELSE a[f]]

\* JSON.parse(JSON.stringify(o)): keys whose value is undefined are not written
JsonRoundTrip(o) ==
    LET kept == {f \in DOMAIN o : o[f].k # "undefined"}
    IN [f \in kept |-> o[f]]

\* a || b
Truthy(v) ==
    \/ v.k = "string" /\ Len(v.s) > 0
    \/ v.k = "number" /\ v.n # 0
    \/ v.k = "boolean" /\ v.n = 1
    \/ v.k \in {"array", "date"}

OrElse(a, b) == IF Truthy(a) THEN a ELSE b

-----------------------------------------------------------------------------
(* The filesystem *)

\* fs.existsSync(p)
ExistsIn(fl, ds, p) == PathResolve(p) \in DOMAIN fl \/ PathResolve(p) \in ds

IsFileIn(fl, p) == PathResolve(p) \in DOMAIN fl

\* a function with one more (or one changed) point
Put(f, x, v) == [y \in (DOMAIN f) \cup {x} |-> IF y = x THEN v ELSE f[y]]

\* a function with one point removed
Drop(f, x) == [y \in (DOMAIN f) \ {x} |-> f[y]]

-----------------------------------------------------------------------------
(* metadata.ts *)

METADATA_DIR == <<".","m","e","t","a","d","a","t","a">>

DotJson == <<".","j","s","o","n">>

getMetadataPath(imagePath) ==
    PathJoin(METADATA_DIR, StripBase64Unsafe(Base64(imagePath)) \o DotJson)

\* loadMetadata: the stored object, or NoRecord for null
NoRecord == [null |-> TRUE]

loadMetadata(store, imagePath) ==
    IF getMetadataPath(imagePath) \in DOMAIN store
    THEN store[getMetadataPath(imagePath)]
    ELSE NoRecord

\* extractImageMetadata: sharp's metadata and the file stats, or the two
\* timestamps alone when the file cannot be read as an image
extractImageMetadata(fl, imagePath, originalPath, now) ==
    IF IsFileIn(fl, imagePath)
    THEN Bind(fl[PathResolve(imagePath)], LAMBDA c :
         Bind(IF IsFileIn(fl, originalPath) THEN fl[PathResolve(originalPath)].size ELSE 0,
              LAMBDA originalFileSize :
            [width |-> Num(c.width), height |-> Num(c.height),
             format |-> Str(c.format), colorSpace |-> Str(<<"s","r","g","b">>),
             hasAlpha |-> Bool(FALSE), fileSize |-> Num(c.size),
             originalSize |-> Num(IF originalFileSize # 0 THEN originalFileSize ELSE c.size),
             exif |-> Undefined,
             createdAt |-> IsoDate(c.birthtime), updatedAt |-> IsoDate(c.mtime)]))
    ELSE [createdAt |-> IsoDate(now), updatedAt |-> IsoDate(now)]

\* the record saveMetadata starts from when none is stored
SynthesizeRecord(fl, imagePath, relativePath, originalPath, now) ==
    Spread([filename |-> Str(PathBasename(imagePath)), path |-> Str(imagePath),
            relativePath |-> Str(relativePath), originalPath |-> Str(originalPath),
            width |-> Num(0), height |-> Num(0), format |-> Str(<<"u","n","k","n","o","w","n">>),
            fileSize |-> Num(0), originalSize |-> Num(0),
            createdAt |-> IsoDate(now), updatedAt |-> IsoDate(now)],
           extractImageMetadata(fl, imagePath, originalPath, now))

\* the merge in the other order: the stored fields win over the provided ones
MergeRecordStoredWins(existing, metadata, imagePath, relativePath, now) ==
    Spread(Spread(metadata, existing),
           [updatedAt |-> IsoDate(now),
            filename |-> OrElse(Get(metadata, "filename"), Get(existing, "filename")),
            path |-> Str(imagePath), relativePath |-> Str(relativePath)])

\* the merge of saveMetadata
MergeRecord(existing, metadata, imagePath, relativePath, now) ==
    Spread(Spread(existing, metadata),
           [updatedAt |-> IsoDate(now),
            filename |-> OrElse(Get(metadata, "filename"), Get(existing, "filename")),
            path |-> Str(imagePath), relativePath |-> Str(relativePath)])

\* saveMetadata: the store after the write, and the returned object
saveMetadata(store, fl, imagePath, relativePath, originalPath, metadata, now) ==
    Bind(loadMetadata(store, imagePath), LAMBDA loaded :
    Bind(IF loaded = NoRecord
         THEN SynthesizeRecord(fl, imagePath, relativePath, originalPath, now)
         ELSE loaded, LAMBDA existing :
    Bind(MergeRecord(existing, metadata, imagePath, relativePath, now), LAMBDA updated :
        [store |-> Put(store, getMetadataPath(imagePath), JsonRoundTrip(updated)),
         rec |-> updated])))

\* the longest file name the filesystem takes (NAME_MAX): renameSync and
\* writeFileSync throw ENAMETOOLONG for a longer one
NameMax == 255

\* renameImage: the file and the record after the call; it throws when the new
\* name is taken, when renameSync refuses (no file at the old path, no
\* directory for the new path, or the new name is too long), and when the record's new file name, the base64 of the
\* new path, is too long to be written
renameImage(fl, ds, store, oldPath, newFilename, relativePath) ==
    Bind(PathJoin(PathDirname(oldPath), newFilename), LAMBDA newPath :
    Bind(getMetadataPath(oldPath), LAMBDA oldMetadataPath :
    Bind(Put(Drop(fl, PathResolve(oldPath)), PathResolve(newPath),
             IF IsFileIn(fl, oldPath) THEN fl[PathResolve(oldPath)] ELSE <<>>),
         LAMBDA renamed :
        IF \/ ExistsIn(fl, ds, newPath) \/ ~ IsFileIn(fl, oldPath)
           \/ Len(PathBasename(newPath)) > NameMax
           \/ PathResolve(PathDirname(newPath)) \notin ds
        THEN [threw |-> TRUE, files |-> fl, store |-> store, newPath |-> newPath]
        ELSE IF /\ oldMetadataPath \in DOMAIN store
                /\ Len(PathBasename(getMetadataPath(newPath))) > NameMax
        THEN \* writeFileSync throws after renameSync has moved the file
             [threw |-> TRUE, files |-> renamed, store |-> store, newPath |-> newPath]
        ELSE [threw |-> FALSE,
              files |-> renamed,
              store |->
                  IF oldMetadataPath \in DOMAIN store
                  THEN Drop(Put(store, getMetadataPath(newPath),
                                Spread(store[oldMetadataPath],
                                   [filename |-> Str(newFilename),
                                    path |-> Str(newPath),
                                    relativePath |->
                                        Str(ReplaceChar(PathJoin(PathDirname(relativePath),
                                                                 newFilename),
                                                        "\\", "/"))])),
                            oldMetadataPath)
                  ELSE store,
              newPath |-> newPath])))

\* the path of a file as readdirSync and path.join spell it from a relative root
RelToCwd(abs) == Substring(abs, Len(Cwd) + 1)

ImageExtensions ==
    { <<".","j","p","g">>, <<".","j","p","e","g">>, <<".","p","n","g">>,
      <<".","w","e","b","p">>, <<".","g","i","f">> }

\* fullPath.replace(/\.(webp|jpeg)$/i, path.extname(fullPath) || ".jpg")
ReplaceWebpJpegExt(p) ==
    LET low == ToLowerCase(p)
        ext == IF Len(PathExtname(p)) > 0 THEN PathExtname(p) ELSE <<".","j","p","g">>
    IN IF EndsWith(low, <<".","w","e","b","p">>) \/ EndsWith(low, <<".","j","p","e","g">>)
       THEN SubSeq(p, 1, Len(p) - 5) \o ext
       ELSE p

\* p.replace(/optimized/g, "originals")
ToOriginals(p) == ReplaceAll(p, OPTIMIZED_DIR, ORIGINALS_DIR)

\* getAllImages("optimized"): the path of every image file below the
\* directory, as path.join spells it from the relative root
getAllImages(fl) ==
    { RelToCwd(a) : a \in
        { b \in DOMAIN fl :
            /\ StartsWith(b, PathResolve(OPTIMIZED_DIR) \o <<"/">>)
            /\ \E ext \in ImageExtensions : EndsWith(ToLowerCase(PathBasename(b)), ext) } }

-----------------------------------------------------------------------------
(* src/server/utils/cache.ts *)

CACHE_TTL == 3600000

THUMBNAIL_SIZE == 400

CacheMaxSize == 1000

CacheHas(c, key) == \E i \in 1..Len(c) : c[i].key = key

CacheEntryOf(c, key) == c[CHOOSE i \in 1..Len(c) : c[i].key = key]

\* Map.delete
MapDelete(c, key) == SelectSeq(c, LAMBDA e : e.key # key)

\* Map.set: a present key keeps its place in the iteration order
MapSet(c, entry) ==
    IF CacheHas(c, entry.key)
    THEN [i \in 1..Len(c) |-> IF c[i].key = entry.key THEN entry ELSE c[i]]
    ELSE Append(c, entry)

NoValue == [miss |-> TRUE]

\* a get whose hit stores the entry anew with the time of the hit
SimpleCacheGetRenewing(c, key, now) ==
    IF ~ CacheHas(c, key) THEN [cache |-> c, value |-> NoValue]
    ELSE Bind(CacheEntryOf(c, key), LAMBDA entry :
              IF now - entry.timestamp > entry.ttl
              THEN [cache |-> MapDelete(c, key), value |-> NoValue]
              ELSE [cache |-> Append(MapDelete(c, key), [entry EXCEPT !.timestamp = now]),
                    value |-> entry.data])

\* SimpleCache.get: the map after the call and the returned value
SimpleCacheGet(c, key, now) ==
    IF ~ CacheHas(c, key) THEN [cache |-> c, value |-> NoValue]
    ELSE Bind(CacheEntryOf(c, key), LAMBDA entry :
              IF now - entry.timestamp > entry.ttl
              THEN [cache |-> MapDelete(c, key), value |-> NoValue]
              ELSE [cache |-> Append(MapDelete(c, key), entry), value |-> entry.data])

\* SimpleCache.set
SimpleCacheSet(c, key, data, ttl, now, maxSize) ==
    MapSet(IF Len(c) >= maxSize /\ ~ CacheHas(c, key) /\ Len(c) > 0 /\ Len(c[1].key) > 0
           THEN MapDelete(c, c[1].key)
           ELSE c,
           [key |-> key, data |-> data, timestamp |-> now, ttl |-> ttl])

\* an invalidation that stops at the first thumbnail key it deletes
invalidateOneVariant(th, mc, imagePath) ==
    [thumbs |-> IF \E i \in 1..Len(th) : StartsWith(th[i].key, imagePath)
                THEN MapDelete(th, th[CHOOSE i \in 1..Len(th) :
                                        /\ StartsWith(th[i].key, imagePath)
                                        /\ \A j \in 1..(i - 1) :
                                              ~ StartsWith(th[j].key, imagePath)].key)
                ELSE th,
     metaCache |-> MapDelete(mc, imagePath)]

\* an invalidation that deletes only the key equal to the path
invalidateExactKeyOnly(th, mc, imagePath) ==
    [thumbs |-> MapDelete(th, imagePath), metaCache |-> MapDelete(mc, imagePath)]

\* invalidateImageCache: both caches after the call
invalidateImageCache(th, mc, imagePath) ==
    [thumbs |-> SelectSeq(th, LAMBDA e : ~ StartsWith(e.key, imagePath)),
     metaCache |-> MapDelete(mc, imagePath)]

\* String(n) for a natural number
RECURSIVE NumToString(_)
NumToString(n) ==
    LET digits == <<"0","1","2","3","4","5","6","7","8","9">>
    IN IF n < 10 THEN <<digits[n + 1]>>
       ELSE NumToString(n \div 10) \o <<digits[(n % 10) + 1]>>

\* `${imagePath}-${size}`
ThumbnailKey(imagePath, size) == imagePath \o <<"-">> \o NumToString(size)

Min(a, b) == IF a < b THEN a ELSE b

Max(a, b) == IF a > b THEN a ELSE b

\* sharp(imagePath).resize(size, null, {withoutEnlargement: true}).webp(...)
ThumbnailOf(content, size) == [width |-> Min(size, content.width), of |-> content.size]

-----------------------------------------------------------------------------
(* src/utils/constants.ts, src/utils/helpers.ts *)

DEFAULT_WIDTH == 1600

DEFAULT_QUALITY == 85

Webp == <<"w","e","b","p">>

Jpeg == <<"j","p","e","g">>

Both == <<"b","o","t","h">>

DEFAULT_FORMAT == Webp

MAX_FILE_SIZE == 50 * 1024 * 1024

SUPPORTED_FORMATS == ImageExtensions

\* filename.toLowerCase().slice(filename.lastIndexOf(".")); slice(-1) is the
\* last character
validateFileType(filename) ==
    LET low == ToLowerCase(filename)
        i == LastIndexOf(filename, ".")
        ext == IF i = 0 THEN SubSeq(low, Len(low), Len(low)) ELSE SubSeq(low, i, Len(low))
    IN ext \in SUPPORTED_FORMATS

validateFileSize(size, maxSize) == size > 0 /\ size <= maxSize

isImageFile(filename) == ToLowerCase(PathExtname(filename)) \in ImageExtensions

-----------------------------------------------------------------------------
(* src/optimizer.ts *)

\* getDateFolder(): the requests of one behaviour fall on one day
DateFolder == <<"2","0","2","5","/","1","0","/","3","1">>

\* fs.mkdirSync(p, {recursive: true})
MkdirP(ds, p) ==
    LET segs == ResolvedSegs(p)
    IN ds \cup { <<"/">> \o JoinSegs(SubSeq(segs, 1, k)) : k \in 1..Len(segs) }

\* the byte count the codec produces: a function of the pixels, the quality
\* and the format
EncodedSize(width, height, quality, format) ==
    ((width * height * quality) \div 400) + (IF format = Jpeg THEN 2 ELSE 1)

\* generateFormat: the filesystem and the store after the call, and the result
generateFormat(fl, store, buffer, baseName, format, options, outputDir, originalSize, originalPath, now) ==
    Bind(PathJoin(outputDir, baseName \o <<".">> \o format), LAMBDA outputPath :
    Bind(IF options.width > 0 THEN Min(options.width, buffer.width) ELSE buffer.width,
         LAMBDA width :
    Bind((buffer.height * width) \div buffer.width, LAMBDA height :
    Bind(EncodedSize(width, height, options.quality, format), LAMBDA optimizedSize :
    Bind(Put(fl, PathResolve(outputPath),
             [size |-> optimizedSize, width |-> width, height |-> height,
              format |-> format,
              birthtime |-> IF IsFileIn(fl, outputPath)
                            THEN fl[PathResolve(outputPath)].birthtime ELSE now,
              mtime |-> now]), LAMBDA written :
        IF format \in buffer.fails
        THEN \* pipeline.toFile rejects: nothing after line 112 runs
             [files |-> fl, store |-> store, threw |-> TRUE,
              result |-> [name |-> baseName \o <<".">> \o format,
                          output |-> outputPath, savings |-> 0]]
        ELSE [files |-> written,
              store |-> saveMetadata(store, written, outputPath,
                                     ReplaceChar(PathRelative(outputDir, outputPath), "\\", "/"),
                                     originalPath,
                                     [filename |-> Str(baseName \o <<".">> \o format)],
                                     now).store,
              threw |-> FALSE,
              result |-> [name |-> baseName \o <<".">> \o format,
                          output |-> outputPath,
                          savings |-> originalSize - optimizedSize]])))))

\* an optimizeImage that awaits the jpeg encode before it starts the webp one
optimizeImageAwaitingEach(fl, ds, store, buffer, originalName, options, now) ==
    Bind(PathParseName(originalName), LAMBDA baseName :
    Bind(PathJoin(OPTIMIZED_DIR, DateFolder), LAMBDA optimizedDateDir :
    Bind(PathJoin(ORIGINALS_DIR, DateFolder), LAMBDA originalsDateDir :
    Bind(PathJoin(originalsDateDir, originalName), LAMBDA originalPath :
    Bind(Put(fl, PathResolve(originalPath),
             [size |-> buffer.size, width |-> buffer.width,
              height |-> buffer.height, format |-> buffer.format,
              birthtime |-> IF IsFileIn(fl, originalPath)
                            THEN fl[PathResolve(originalPath)].birthtime ELSE now,
              mtime |-> now]), LAMBDA archived :
        IF PathDirname(PathResolve(originalPath))
             \notin MkdirP(MkdirP(ds, optimizedDateDir), originalsDateDir)
        THEN \* fs.writeFileSync(originalPath, buffer) throws ENOENT
             [files |-> fl,
              dirs |-> MkdirP(MkdirP(ds, optimizedDateDir), originalsDateDir),
              store |-> store, threw |-> TRUE, results |-> <<>>]
        ELSE IF options.format = Both
        THEN Bind(generateFormat(archived, store, buffer, baseName, Jpeg, options,
                                 optimizedDateDir, buffer.size, originalPath, now),
                  LAMBDA jpeg :
             Bind(IF jpeg.threw THEN jpeg
                  ELSE generateFormat(jpeg.files, jpeg.store, buffer, baseName, Webp, options,
                                      optimizedDateDir, buffer.size, originalPath, now),
                  LAMBDA webp :
                 [files |-> webp.files,
                  dirs |-> MkdirP(MkdirP(ds, optimizedDateDir), originalsDateDir),
                  store |-> webp.store,
                  threw |-> jpeg.threw \/ webp.threw,
                  results |-> IF jpeg.threw \/ webp.threw THEN <<>>
                              ELSE <<jpeg.result, webp.result>>]))
        ELSE Bind(generateFormat(archived, store, buffer, baseName, options.format,
                                 options, optimizedDateDir, buffer.size, originalPath, now),
                  LAMBDA one :
                 [files |-> one.files,
                  dirs |-> MkdirP(MkdirP(ds, optimizedDateDir), originalsDateDir),
                  store |-> one.store,
                  threw |-> one.threw,
                  results |-> IF one.threw THEN <<>> ELSE <<one.result>>]))))))

\* optimizeImage with the default outputDir and originalsDir: with "both" the
\* two generateFormat calls are started before Promise.all awaits either, and
\* a rejection of one leaves the other running to its end
optimizeImage(fl, ds, store, buffer, originalName, options, now) ==
    Bind(PathParseName(originalName), LAMBDA baseName :
    Bind(PathJoin(OPTIMIZED_DIR, DateFolder), LAMBDA optimizedDateDir :
    Bind(PathJoin(ORIGINALS_DIR, DateFolder), LAMBDA originalsDateDir :
    Bind(PathJoin(originalsDateDir, originalName), LAMBDA originalPath :
    Bind(Put(fl, PathResolve(originalPath),
             [size |-> buffer.size, width |-> buffer.width,
              height |-> buffer.height, format |-> buffer.format,
              birthtime |-> IF IsFileIn(fl, originalPath)
                            THEN fl[PathResolve(originalPath)].birthtime ELSE now,
              mtime |-> now]), LAMBDA archived :
        IF PathDirname(PathResolve(originalPath))
             \notin MkdirP(MkdirP(ds, optimizedDateDir), originalsDateDir)
        THEN \* fs.writeFileSync(originalPath, buffer) throws ENOENT
             [files |-> fl,
              dirs |-> MkdirP(MkdirP(ds, optimizedDateDir), originalsDateDir),
              store |-> store, threw |-> TRUE, results |-> <<>>]
        ELSE IF options.format = Both
        THEN Bind(generateFormat(archived, store, buffer, baseName, Jpeg, options,
                                 optimizedDateDir, buffer.size, originalPath, now),
                  LAMBDA jpeg :
             Bind(generateFormat(jpeg.files, jpeg.store, buffer, baseName, Webp, options,
                                 optimizedDateDir, buffer.size, originalPath, now),
                  LAMBDA webp :
                 [files |-> webp.files,
                  dirs |-> MkdirP(MkdirP(ds, optimizedDateDir), originalsDateDir),
                  store |-> webp.store,
                  threw |-> jpeg.threw \/ webp.threw,
                  results |-> IF jpeg.threw \/ webp.threw THEN <<>>
                              ELSE <<jpeg.result, webp.result>>]))
        ELSE Bind(generateFormat(archived, store, buffer, baseName, options.format,
                                 options, optimizedDateDir, buffer.size, originalPath, now),
                  LAMBDA one :
                 [files |-> one.files,
                  dirs |-> MkdirP(MkdirP(ds, optimizedDateDir), originalsDateDir),
                  store |-> one.store,
                  threw |-> one.threw,
                  results |-> IF one.threw THEN <<>> ELSE <<one.result>>]))))))

-----------------------------------------------------------------------------
(* server.ts: helpers of the handlers *)

\* config.maxFilesPerRequest
MaxFilesPerRequest == 20

DigitChars == <<"0","1","2","3","4","5","6","7","8","9">>

IsDigit(c) == \E d \in 1..10 : DigitChars[d] = c

DigitValue(c) == (CHOOSE d \in 1..10 : DigitChars[d] = c) - 1

RECURSIVE DigitsValue(_)
DigitsValue(s) ==
    IF Len(s) = 0 THEN 0
    ELSE 10 * DigitsValue(SubSeq(s, 1, Len(s) - 1)) + DigitValue(s[Len(s)])

\* Number(text) || fallback for a form field: Number of a missing or empty
\* field is 0 and Number of a text that is no numeral is NaN, and both are
\* falsy; a decimal numeral with an optional sign converts to its value
NumberOr(text, fallback) ==
    LET signed == Len(text) > 0 /\ text[1] = "-"
        digits == IF signed THEN Tail(text) ELSE text
        numeral == Len(digits) > 0 /\ \A i \in 1..Len(digits) : IsDigit(digits[i])
        value == IF signed THEN 0 - DigitsValue(digits) ELSE DigitsValue(digits)
    IN IF numeral /\ value # 0 THEN value ELSE fallback

\* the validation loop of POST /optimize: the names of the files it rejects
validationErrors(uploads) ==
    LET rejected == SelectSeq(uploads, LAMBDA f :
                        \/ ~ validateFileType(f.name)
                        \/ ~ validateFileSize(f.size, MAX_FILE_SIZE))
    IN [i \in 1..Len(rejected) |-> rejected[i].name]

\* r.output.replace(/\\/g, "/").replace(/^optimized\//, "") behind /download/
downloadUrl(output) ==
    LET slashed == ReplaceChar(output, "\\", "/")
        prefix == OPTIMIZED_DIR \o <<"/">>
    IN <<"/","d","o","w","n","l","o","a","d","/">>
       \o (IF StartsWith(slashed, prefix)
           THEN SubSeq(slashed, Len(prefix) + 1, Len(slashed)) ELSE slashed)

\* the processing loop of POST /optimize: each file in its own try/catch; a
\* file whose optimizeImage throws adds its name to errors and nothing to
\* the results, and what the call wrote before it threw stays written
RECURSIVE ProcessFiles(_, _, _, _)
ProcessFiles(acc, uploads, options, now) ==
    IF Len(uploads) = 0 THEN acc
    ELSE Bind(optimizeImage(acc.files, acc.dirs, acc.store, Head(uploads),
                            Head(uploads).name, options, now), LAMBDA r :
             ProcessFiles([files |-> r.files, dirs |-> r.dirs, store |-> r.store,
                           results |-> IF r.threw THEN acc.results
                                       ELSE acc.results \o
                                            [i \in 1..Len(r.results) |->
                                               [name |-> r.results[i].name,
                                                output |-> r.results[i].output,
                                                savings |-> r.results[i].savings,
                                                downloadUrl |-> downloadUrl(r.results[i].output)]],
                           errors |-> IF r.threw THEN Append(acc.errors, Head(uploads).name)
                                      ELSE acc.errors],
                          Tail(uploads), options, now))

\* findFileRecursive returned null
NoFile == <<>>

\* findFileRecursive: the values the call can return; which match comes first
\* depends on the order in which readdirSync lists a directory
findFileRecursive(fl, ds, dirPath, fileName) ==
    LET hits == { RelToCwd(a) : a \in
                    { b \in DOMAIN fl :
                        /\ StartsWith(b, PathResolve(dirPath) \o <<"/">>)
                        /\ \/ PathBasename(b) = fileName
                           \/ EndsWith(RelToCwd(b), fileName) } }
    IN IF ~ ExistsIn(fl, ds, dirPath) \/ hits = {} THEN {NoFile} ELSE hits

\* the path a handler settles on: the validated path when a file is there,
\* otherwise the file found by name; onInvalid says what the handler does with
\* a found file whose own path fails validation
Locate(fl, ds, decodedPath, found, onInvalid) ==
    Bind(validateImagePath(decodedPath, OPTIMIZED_DIR), LAMBDA v :
        IF ~ v.valid THEN [status |-> 400, path |-> <<>>]
        ELSE IF ExistsIn(fl, ds, v.filePath) THEN [status |-> 200, path |-> v.filePath]
        ELSE IF found = NoFile THEN [status |-> 404, path |-> <<>>]
        ELSE Bind(validateImagePath(PathRelative(OPTIMIZED_DIR, found), OPTIMIZED_DIR),
                  LAMBDA fv :
                 IF fv.valid THEN [status |-> 200, path |-> fv.filePath]
                 ELSE IF onInvalid = "use" THEN [status |-> 200, path |-> found]
                 ELSE [status |-> 404, path |-> <<>>]))

\* the removal both delete handlers perform on a located file
RemoveAsset(fl, ds, store, th, mc, filePath) ==
    Bind(Drop(fl, PathResolve(filePath)), LAMBDA unlinked :
    Bind(Drop(store, getMetadataPath(filePath)), LAMBDA forgotten :
    Bind(ToOriginals(filePath), LAMBDA originalPath :
    Bind(invalidateImageCache(th, mc, filePath), LAMBDA inv :
        IF ~ IsFileIn(fl, filePath)
        THEN [threw |-> TRUE, files |-> fl, store |-> store,
              thumbs |-> th, metaCache |-> mc]
        ELSE IF ExistsIn(unlinked, ds, originalPath) /\ ~ IsFileIn(unlinked, originalPath)
        THEN [threw |-> TRUE, files |-> unlinked, store |-> forgotten,
              thumbs |-> th, metaCache |-> mc]
        ELSE [threw |-> FALSE,
              files |-> IF IsFileIn(unlinked, originalPath)
                        THEN Drop(unlinked, PathResolve(originalPath)) ELSE unlinked,
              store |-> forgotten, thumbs |-> inv.thumbs, metaCache |-> inv.metaCache]))))

\* getAllImages' relativePath of the image at path p
RelativeToRoot(p) == ReplaceChar(PathRelative(OPTIMIZED_DIR, p), "\\", "/")

\* the record creation of GET /api/images for the images without a record
RECURSIVE SeedMissing(_, _, _, _)
SeedMissing(store, fl, imgs, now) ==
    IF imgs = {} THEN store
    ELSE Bind(CHOOSE x \in imgs : TRUE, LAMBDA p :
         Bind(ReplaceWebpJpegExt(ToOriginals(p)), LAMBDA originalPath :
             SeedMissing(IF ~ IsFileIn(fl, p) \/ loadMetadata(store, p) # NoRecord
                         THEN store
                         ELSE saveMetadata(store, fl, p, RelativeToRoot(p), originalPath,
                                  Spread([filename |-> Str(PathBasename(p))],
                                         extractImageMetadata(fl, p, originalPath, now)),
                                  now).store,
                         fl, imgs \ {p}, now)))

\* typeof v === "string" ? v.trim().slice(0, max) : undefined
SanitizeText(v, max) ==
    IF v.k = "string" THEN Str(SliceTo(Trim(v.s), max)) ELSE Undefined

\* Array.isArray(v) ? v.filter(string).slice(0, 20).map(trim, slice(0, 50)) : undefined
SanitizeKeywords(v) ==
    IF v.k = "array"
    THEN LET strings == SelectSeq(v.a, LAMBDA e : e.k = "string")
             kept == SubSeq(strings, 1, Min(20, Len(strings)))
         IN Arr([i \in 1..Len(kept) |-> Str(SliceTo(Trim(kept[i].s), 50))])
    ELSE Undefined

\* the object the PUT route passes to saveMetadata
sanitizedMetadata(body) ==
    [title |-> SanitizeText(Get(body, "title"), 200),
     altText |-> SanitizeText(Get(body, "altText"), 200),
     description |-> SanitizeText(Get(body, "description"), 1000),
     caption |-> SanitizeText(Get(body, "caption"), 500),
     keywords |-> SanitizeKeywords(Get(body, "keywords"))]

\* the request just served and what its response says; dropped counts the
\* thumbnail-cache entries the request removed
Quiet(op) ==
    [op |-> op, valid |-> TRUE, ok |-> FALSE, target |-> <<>>, newPath |-> <<>>,
     body |-> EmptyObject, metadata |-> NoRecord, results |-> <<>>, dropped |-> 0,
     errors |-> <<>>, request |-> <<>>]

-----------------------------------------------------------------------------
(* Calls of validateImagePath on bounded inputs *)

Pieces == { OPTIMIZED_DIR,
            <<"O","P","T","I","M","I","Z","E","D">>,
            <<"/">>, <<"\\">>, <<".">>, DotDot, <<" ">>,
            <<"x">>, <<"a", ".", "j", "p", "g">> }

RECURSIVE PathInputs(_)
PathInputs(n) ==
    IF n = 0 THEN {<<>>}
    ELSE LET prev == PathInputs(n - 1)
         IN prev \cup {p \o q : p \in prev, q \in Pieces}

NoResult == [valid |-> FALSE, filePath |-> <<>>, error |-> "not called"]

Idle ==
    /\ sPartial = <<>> /\ sPrev = <<>> /\ sResult = <<>>
    /\ files = <<>> /\ dirs = {} /\ meta = <<>>
    /\ thumbs = <<>> /\ metaCache = <<>> /\ pending = <<>>
    /\ clock = 0 /\ steps = 0 /\ last = <<>> /\ used = <<>>

InitPath ==
    /\ vPath \in PathInputs(MaxPieces)
    /\ vResult = NoResult
    /\ Idle

Validate ==
    /\ vResult = NoResult
    /\ vResult' = validateImagePath(vPath, OPTIMIZED_DIR)
    /\ UNCHANGED <<vPath, sPartial, sPrev, sResult, files, dirs, meta, thumbs,
                   metaCache, pending, clock, steps, last, used>>

NextPath == Validate

SpecPath == InitPath /\ [][NextPath]_vars

-----------------------------------------------------------------------------
(* Calls of saveMetadata on bounded inputs: one image file, with or without *)
(* a stored record, and a partial record over some of the fields            *)

SaveImagePath == <<"t","e","s","t",".","j","p","g">>

SaveRelativePath == SaveImagePath

SaveFile == [size |-> 7, width |-> 4, height |-> 3,
             format |-> <<"j","p","e","g">>, birthtime |-> 1, mtime |-> 1]

SaveFiles == [p \in {PathResolve(SaveImagePath)} |-> SaveFile]

SaveClock == 5

SeededRecord ==
    JsonRoundTrip(MergeRecord(
        SynthesizeRecord(SaveFiles, SaveImagePath, SaveRelativePath, SaveImagePath, 2),
        [filename |-> Str(SaveImagePath)], SaveImagePath, SaveRelativePath, 2))

EditedRecord ==
    Spread(SeededRecord,
           [title |-> Str(<<"O","l","d">>), altText |-> Str(<<"A","l","t">>),
            keywords |-> Arr(<<<<"k","1">>, <<"k","2">>>>)])

PrevRecords == {NoRecord, SeededRecord, EditedRecord}

\* the values a call may provide for each field
PartialChoices ==
    [title |-> {Str(<<>>), Str(<<"N","e","w">>)},
     altText |-> {Str(<<"X">>), Undefined},
     keywords |-> {Arr(<<>>), Arr(<<<<"k","3">>>>)},
     filename |-> {Str(<<>>), Str(<<"n",".","j","p","g">>)},
     relativePath |-> {Str(<<"z","z">>)},
     path |-> {Str(<<"y","y">>)},
     updatedAt |-> {IsoDate(0)}]

PartialValues == UNION {PartialChoices[f] : f \in DOMAIN PartialChoices}

Partials ==
    UNION {{m \in [S -> PartialValues] : \A f \in S : m[f] \in PartialChoices[f]} :
           S \in SUBSET DOMAIN PartialChoices}

InitSave ==
    /\ sPrev \in PrevRecords
    /\ sPartial \in Partials
    /\ sResult = NoRecord
    /\ files = SaveFiles
    /\ meta = IF sPrev = NoRecord THEN <<>>
              ELSE [key \in {getMetadataPath(SaveImagePath)} |-> sPrev]
    /\ clock = SaveClock
    /\ vPath = <<>> /\ vResult = NoResult
    /\ dirs = {} /\ thumbs = <<>> /\ metaCache = <<>> /\ pending = <<>>
    /\ steps = 0 /\ last = <<>> /\ used = <<>>

SaveCall ==
    /\ sResult = NoRecord
    /\ LET out == saveMetadata(meta, files, SaveImagePath, SaveRelativePath,
                               SaveImagePath, sPartial, clock)
       IN /\ meta' = out.store
          /\ sResult' = out.rec
    /\ UNCHANGED <<vPath, vResult, sPartial, sPrev, files, dirs, thumbs,
                   metaCache, pending, clock, steps, last, used>>

NextSave == SaveCall

SpecSave == InitSave /\ [][NextSave]_vars

-----------------------------------------------------------------------------
(* The requests of the model *)

CanonA == DateFolder \o <<"/","a",".","w","e","b","p">>

CanonB == DateFolder \o <<"/","b",".","w","e","b","p">>

\* the canonical path of two derivatives, a traversal attempt and a bare
\* file name; none carries a percent escape, so decodeURIComponent leaves
\* each as it is
ReqPaths == { CanonA, CanonB, <<".",".","/","a",".","w","e","b","p">>,
              <<"a",".","w","e","b","p">> }

\* formData.get of a field the form does not carry is null; Number(null) and
\* Number("") are both 0
NoField == <<>>

Upload ==
    [name |-> <<"a",".","j","p","g">>, size |-> 20, width |-> 8, height |-> 6,
     format |-> Jpeg, fails |-> {}]

\* one file per request; the width and quality fields are left out of the form
OptimizeRequests ==
    { [files |-> <<Upload>>, format |-> f, width |-> NoField, quality |-> NoField] :
        f \in {Webp, Both} }

PutBodies == { [title |-> Str(<<"T">>)], [altText |-> Str(<<"A">>)] }

\* no body carries useSEO
RenameBodies ==
    { [newFilename |-> Str(<<"a",".","w","e","b","p">>)],
      [newFilename |-> Str(<<"b",".","w","e","b","p">>)] }

RECURSIVE SeqsUpTo(_, _)
SeqsUpTo(S, n) ==
    IF n = 0 THEN {<<>>}
    ELSE SeqsUpTo(S, n - 1)
         \cup { Append(q, x) : q \in { r \in SeqsUpTo(S, n - 1) : Len(r) = n - 1 }, x \in S }

BulkBodies == SeqsUpTo(ReqPaths, MaxBulk)

-----------------------------------------------------------------------------
(* server.ts: the handlers *)

Init ==
    /\ vPath = <<>> /\ vResult = NoResult
    /\ sPartial = EmptyObject /\ sPrev = NoRecord /\ sResult = NoRecord
    /\ files = <<>>
    /\ dirs = {Cwd}
    /\ meta = <<>>
    /\ thumbs = <<>>
    /\ metaCache = <<>>
    /\ pending = <<>>
    /\ clock = 1
    /\ steps = 0
    /\ last = Quiet("none")
    /\ used = <<>>

\* a request is answered: the response is recorded and time moves on
Served(resp) ==
    /\ last' = resp
    /\ steps' = steps + 1
    /\ clock' = clock + 1
    /\ UNCHANGED <<vPath, vResult, sPartial, sPrev, sResult, used>>

\* POST /optimize
Optimize(req) ==
    /\ steps < MaxSteps
    /\ IF \/ Len(req.files) = 0
          \/ Len(req.files) > MaxFilesPerRequest
          \/ Len(validationErrors(req.files)) > 0
       THEN /\ UNCHANGED <<files, dirs, meta>>
            /\ Served([Quiet("optimize") EXCEPT
                          !.request = req,
                          !.errors = IF Len(req.files) \in 1..MaxFilesPerRequest
                                     THEN validationErrors(req.files) ELSE <<>>])
       ELSE \E r \in { ProcessFiles([files |-> files, dirs |-> dirs, store |-> meta,
                                     results |-> <<>>, errors |-> <<>>],
                                    req.files,
                                    [width |-> Max(1, Min(NumberOr(req.width, DEFAULT_WIDTH),
                                                          10000)),
                                     quality |-> Max(1, Min(NumberOr(req.quality,
                                                                     DEFAULT_QUALITY), 100)),
                                     format |-> IF Len(req.format) > 0 THEN req.format
                                                ELSE DEFAULT_FORMAT],
                                    clock) } :
              /\ files' = r.files
              /\ dirs' = r.dirs
              /\ meta' = r.store
              /\ Served([Quiet("optimize") EXCEPT
                            !.ok = Len(r.results) > 0,
                            !.results = r.results,
                            !.errors = r.errors,
                            !.request = req])
    /\ UNCHANGED <<thumbs, metaCache, pending>>

\* GET /download/*
Download(decodedPath) ==
    /\ steps < MaxSteps
    /\ \E found \in findFileRecursive(files, dirs, OPTIMIZED_DIR, PathBasename(decodedPath)) :
       \E v \in { validateImagePath(decodedPath, OPTIMIZED_DIR) } :
       \E loc \in { Locate(files, dirs, decodedPath, found, "404") } :
         IF loc.status # 200
         THEN Served([Quiet("download") EXCEPT !.valid = v.valid])
         ELSE Served([Quiet("download") EXCEPT
                         !.ok = TRUE,
                         !.target = IF ExistsIn(files, dirs, v.filePath)
                                    THEN v.filePath ELSE found])
    /\ UNCHANGED <<files, dirs, meta, thumbs, metaCache, pending>>

\* GET /api/images
ListAll ==
    /\ steps < MaxSteps
    /\ meta' = IF ExistsIn(files, dirs, OPTIMIZED_DIR)
               THEN SeedMissing(meta, files, getAllImages(files), clock)
               ELSE meta
    /\ Served([Quiet("list") EXCEPT !.ok = TRUE])
    /\ UNCHANGED <<files, dirs, thumbs, metaCache, pending>>

\* getCachedThumbnail up to its await: a hit answers at once, a miss leaves
\* the generation suspended in the codec with the file it has opened
PreviewAt(finalPath) ==
    \E cacheKey \in { ThumbnailKey(finalPath, THUMBNAIL_SIZE) } :
    \E got \in { SimpleCacheGet(thumbs, cacheKey, clock) } :
      IF got.value # NoValue
      THEN /\ thumbs' = got.cache
           /\ UNCHANGED pending
           /\ Served([Quiet("preview") EXCEPT !.ok = TRUE, !.target = finalPath])
      ELSE IF ~ IsFileIn(files, finalPath)
      THEN /\ thumbs' = got.cache
           /\ UNCHANGED pending
           /\ Served([Quiet("preview") EXCEPT !.target = finalPath])
      ELSE /\ Len(pending) < MaxPending
           /\ thumbs' = got.cache
           /\ pending' = Append(pending, [key |-> cacheKey, imagePath |-> finalPath,
                                          content |-> files[PathResolve(finalPath)]])
           /\ Served([Quiet("previewStarted") EXCEPT !.target = finalPath])

\* the preview handlers up to the call of getCachedThumbnail
Preview(decodedPath) ==
    /\ steps < MaxSteps
    /\ \E found \in findFileRecursive(files, dirs, OPTIMIZED_DIR, PathBasename(decodedPath)) :
       \E loc \in { Locate(files, dirs, decodedPath, found, "use") } :
         IF loc.status # 200 \/ ~ ExistsIn(files, dirs, loc.path)
         THEN /\ UNCHANGED <<thumbs, pending>>
              /\ Served([Quiet("preview") EXCEPT !.valid = (loc.status # 400)])
         ELSE PreviewAt(loc.path)
    /\ UNCHANGED <<files, dirs, meta, metaCache>>

\* GET /api/images/*/preview
PreviewRoute(decodedPath) == Preview(decodedPath)

\* onRequest, preview GET
PreviewMw(decodedPath) == Preview(decodedPath)

\* getCachedThumbnail after its await: the codec delivers the thumbnail of the
\* file it opened, or fails when the file has gone in the meantime
PreviewFinish(i, delivered) ==
    /\ i \in 1..Len(pending)
    /\ delivered \/ ~ IsFileIn(files, pending[i].imagePath)
    /\ pending' = SubSeq(pending, 1, i - 1) \o SubSeq(pending, i + 1, Len(pending))
    /\ thumbs' = IF delivered
                 THEN SimpleCacheSet(thumbs, pending[i].key,
                                     ThumbnailOf(pending[i].content, THUMBNAIL_SIZE),
                                     CACHE_TTL, clock, CacheMaxSize)
                 ELSE thumbs
    /\ last' = [Quiet("previewDone") EXCEPT !.ok = delivered,
                                            !.target = pending[i].imagePath]
    /\ UNCHANGED <<vPath, vResult, sPartial, sPrev, sResult, files, dirs, meta,
                   metaCache, clock, steps, used>>

\* GET /api/images/*/metadata
GetMetadataRoute(decodedPath) ==
    /\ steps < MaxSteps
    /\ \E found \in findFileRecursive(files, dirs, OPTIMIZED_DIR, PathBasename(decodedPath)) :
       \E loc \in { Locate(files, dirs, decodedPath, found, "404") } :
       \E loaded \in { loadMetadata(meta, loc.path) } :
         IF loc.status # 200
         THEN /\ UNCHANGED meta
              /\ Served([Quiet("getMetadata") EXCEPT !.valid = (loc.status # 400)])
         ELSE IF loaded # NoRecord
         THEN /\ UNCHANGED meta
              /\ Served([Quiet("getMetadata") EXCEPT !.ok = TRUE, !.target = loc.path,
                                                     !.metadata = loaded])
         ELSE \E originalPath \in { ReplaceWebpJpegExt(ToOriginals(loc.path)) } :
              \E saved \in { saveMetadata(meta, files, loc.path,
                                 PathRelative(OPTIMIZED_DIR, loc.path), originalPath,
                                 Spread([filename |-> Str(PathBasename(loc.path))],
                                        extractImageMetadata(files, loc.path,
                                                             originalPath, clock)),
                                 clock) } :
                /\ meta' = saved.store
                /\ Served([Quiet("getMetadata") EXCEPT !.ok = TRUE, !.target = loc.path,
                                                       !.metadata = saved.rec])
    /\ UNCHANGED <<files, dirs, thumbs, metaCache, pending>>

\* onRequest, metadata GET
GetMetadataMw(decodedPath) ==
    /\ steps < MaxSteps
    /\ \E found \in findFileRecursive(files, dirs, OPTIMIZED_DIR, PathBasename(decodedPath)) :
       \E loc \in { Locate(files, dirs, decodedPath, found, "use") } :
         IF loc.status # 200
         THEN Served([Quiet("getMetadata") EXCEPT !.valid = (loc.status # 400)])
         ELSE Served([Quiet("getMetadata") EXCEPT
                         !.ok = TRUE, !.target = loc.path,
                         !.metadata = loadMetadata(meta, loc.path)])
    /\ UNCHANGED <<files, dirs, meta, thumbs, metaCache, pending>>

\* PUT /api/images/*/metadata
PutMetadataRoute(decodedPath, body) ==
    /\ steps < MaxSteps
    /\ \E found \in findFileRecursive(files, dirs, OPTIMIZED_DIR, PathBasename(decodedPath)) :
       \E loc \in { Locate(files, dirs, decodedPath, found, "404") } :
         IF loc.status # 200
         THEN /\ UNCHANGED meta
              /\ Served([Quiet("putMetadata") EXCEPT !.valid = (loc.status # 400)])
         ELSE \E updated \in { saveMetadata(meta, files, loc.path,
                                   PathRelative(OPTIMIZED_DIR, loc.path),
                                   ReplaceWebpJpegExt(ToOriginals(loc.path)),
                                   sanitizedMetadata(body), clock) } :
                /\ meta' = updated.store
                /\ Served([Quiet("putMetadata") EXCEPT !.ok = TRUE, !.target = loc.path,
                                                       !.body = body,
                                                       !.metadata = updated.rec])
    /\ UNCHANGED <<files, dirs, thumbs, metaCache, pending>>

\* onRequest, metadata PUT
PutMetadataMw(decodedPath, body) ==
    /\ steps < MaxSteps
    /\ \E found \in findFileRecursive(files, dirs, OPTIMIZED_DIR, PathBasename(decodedPath)) :
       \E loc \in { Locate(files, dirs, decodedPath, found, "use") } :
         IF loc.status # 200 \/ ~ ExistsIn(files, dirs, loc.path)
         THEN /\ UNCHANGED meta
              /\ Served([Quiet("putMetadata") EXCEPT !.valid = (loc.status # 400)])
         ELSE \E saved \in { saveMetadata(meta, files, loc.path,
                                 ReplaceChar(PathRelative(OPTIMIZED_DIR, loc.path), "\\", "/"),
                                 ToOriginals(loc.path), body, clock) } :
                /\ meta' = saved.store
                /\ Served([Quiet("putMetadata") EXCEPT !.ok = TRUE, !.target = loc.path,
                                                       !.body = body,
                                                       !.metadata = saved.rec])
    /\ UNCHANGED <<files, dirs, thumbs, metaCache, pending>>

\* the rename handlers once the file to rename is settled: the body checks,
\* renameImage and the two invalidations
RenameAt(finalPath, body) ==
    \E newFilename \in { Get(body, "newFilename") } :
      IF \/ ~ Truthy(newFilename) \/ newFilename.k # "string"
         \/ ~ isImageFile(newFilename.s)
      THEN /\ UNCHANGED <<files, meta, thumbs, metaCache>>
           /\ Served([Quiet("rename") EXCEPT !.target = finalPath, !.body = body])
      ELSE \E r \in { renameImage(files, dirs, meta, finalPath, Trim(newFilename.s),
                          ReplaceChar(PathRelative(OPTIMIZED_DIR, finalPath), "\\", "/")) } :
             IF r.threw
             THEN /\ files' = r.files
                  /\ meta' = r.store
                  /\ UNCHANGED <<thumbs, metaCache>>
                  /\ Served([Quiet("rename") EXCEPT !.target = finalPath, !.body = body,
                                                    !.newPath = r.newPath])
             ELSE \E first \in { invalidateImageCache(thumbs, metaCache, finalPath) } :
                  \E second \in { invalidateImageCache(first.thumbs, first.metaCache,
                                                       r.newPath) } :
                    /\ files' = r.files
                    /\ meta' = r.store
                    /\ thumbs' = second.thumbs
                    /\ metaCache' = second.metaCache
                    /\ Served([Quiet("rename") EXCEPT
                                  !.ok = TRUE, !.target = finalPath,
                                  !.newPath = r.newPath, !.body = body,
                                  !.dropped = Len(thumbs) - Len(second.thumbs)])

\* POST /api/images/*/rename
RenameRoute(decodedPath, body) ==
    /\ steps < MaxSteps
    /\ \E v \in { validateImagePath(decodedPath, OPTIMIZED_DIR) } :
         IF ~ v.valid \/ ~ ExistsIn(files, dirs, PathResolve(v.filePath))
         THEN /\ UNCHANGED <<files, meta, thumbs, metaCache>>
              /\ Served([Quiet("rename") EXCEPT !.valid = v.valid])
         ELSE RenameAt(PathResolve(v.filePath), body)
    /\ UNCHANGED <<dirs, pending>>

\* onRequest, rename POST
RenameMw(decodedPath, body) ==
    /\ steps < MaxSteps
    /\ \E found \in findFileRecursive(files, dirs, OPTIMIZED_DIR, PathBasename(decodedPath)) :
       \E loc \in { Locate(files, dirs, decodedPath, found, "use") } :
         IF loc.status # 200 \/ ~ ExistsIn(files, dirs, loc.path)
         THEN /\ UNCHANGED <<files, meta, thumbs, metaCache>>
              /\ Served([Quiet("rename") EXCEPT !.valid = (loc.status # 400)])
         ELSE RenameAt(loc.path, body)
    /\ UNCHANGED <<dirs, pending>>

\* DELETE /api/images/*
DeleteImage(decodedPath) ==
    /\ steps < MaxSteps
    /\ \E v \in { validateImagePath(decodedPath, OPTIMIZED_DIR) } :
         IF ~ v.valid \/ ~ ExistsIn(files, dirs, v.filePath)
         THEN /\ UNCHANGED <<files, meta, thumbs, metaCache>>
              /\ Served([Quiet("delete") EXCEPT !.valid = v.valid])
         ELSE \E d \in { RemoveAsset(files, dirs, meta, thumbs, metaCache, v.filePath) } :
                /\ files' = d.files
                /\ meta' = d.store
                /\ thumbs' = d.thumbs
                /\ metaCache' = d.metaCache
                /\ Served([Quiet("delete") EXCEPT
                              !.ok = ~ d.threw, !.target = v.filePath,
                              !.dropped = Len(thumbs) - Len(d.thumbs)])
    /\ UNCHANGED <<dirs, pending>>

\* one turn of the loop of the bulk delete on relativePath, found being what
\* findFileRecursive returns; w carries the stores and the results so far
BulkTurn(w, relativePath, found) ==
    Bind(validateImagePath(relativePath, OPTIMIZED_DIR), LAMBDA v :
    Bind(validateImagePath(RelativeToRoot(found), OPTIMIZED_DIR), LAMBDA fv :
    Bind(IF v.valid /\ ExistsIn(w.files, dirs, v.filePath) THEN v.filePath
         ELSE IF found = NoFile THEN <<>>
         ELSE IF fv.valid /\ ExistsIn(w.files, dirs, fv.filePath) THEN fv.filePath
         ELSE IF ExistsIn(w.files, dirs, found) THEN found
         ELSE <<>>, LAMBDA filePath :
        IF filePath = <<>> \/ ~ ExistsIn(w.files, dirs, filePath)
        THEN [w EXCEPT !.results = Append(@, [valid |-> v.valid, success |-> FALSE,
                                              target |-> <<>>])]
        ELSE Bind(RemoveAsset(w.files, dirs, w.store, w.thumbs, w.metaCache, filePath),
                  LAMBDA d :
                 [files |-> d.files, store |-> d.store, thumbs |-> d.thumbs,
                  metaCache |-> d.metaCache,
                  results |-> Append(w.results,
                                     [valid |-> v.valid, success |-> ~ d.threw,
                                      target |-> filePath])]))))

\* the outcomes of the whole loop, one for every way the lookups can answer
RECURSIVE BulkOutcomes(_, _)
BulkOutcomes(w, relativePaths) ==
    IF relativePaths = <<>> THEN {w}
    ELSE UNION { BulkOutcomes(BulkTurn(w, Head(relativePaths), found), Tail(relativePaths)) :
                   found \in findFileRecursive(w.files, dirs, OPTIMIZED_DIR,
                                               PathBasename(Head(relativePaths))) }

\* DELETE /api/images/bulk
BulkDelete(relativePaths) ==
    /\ steps < MaxSteps
    /\ IF Len(relativePaths) = 0
       THEN /\ UNCHANGED <<files, meta, thumbs, metaCache>>
            /\ Served(Quiet("bulkDelete"))
       ELSE \E w \in BulkOutcomes([files |-> files, store |-> meta, thumbs |-> thumbs,
                                   metaCache |-> metaCache, results |-> <<>>],
                                  relativePaths) :
              /\ files' = w.files
              /\ meta' = w.store
              /\ thumbs' = w.thumbs
              /\ metaCache' = w.metaCache
              /\ Served([Quiet("bulkDelete") EXCEPT
                            !.ok = TRUE,
                            !.valid = \A i \in 1..Len(w.results) : w.results[i].valid,
                            !.results = w.results,
                            !.request = relativePaths])
    /\ UNCHANGED <<dirs, pending>>

Next ==
    \/ \E req \in OptimizeRequests : Optimize(req)
    \/ \E p \in ReqPaths : Download(p)
    \/ ListAll
    \/ \E p \in ReqPaths : PreviewRoute(p)
    \/ \E p \in ReqPaths : PreviewMw(p)
    \/ \E i \in 1..MaxPending, delivered \in BOOLEAN : PreviewFinish(i, delivered)
    \/ \E p \in ReqPaths : GetMetadataRoute(p)
    \/ \E p \in ReqPaths : GetMetadataMw(p)
    \/ \E p \in ReqPaths, body \in PutBodies : PutMetadataRoute(p, body)
    \/ \E p \in ReqPaths, body \in PutBodies : PutMetadataMw(p, body)
    \/ \E p \in ReqPaths, body \in RenameBodies : RenameRoute(p, body)
    \/ \E p \in ReqPaths, body \in RenameBodies : RenameMw(p, body)
    \/ \E p \in ReqPaths : DeleteImage(p)
    \/ \E paths \in BulkBodies : BulkDelete(paths)

Spec == Init /\ [][Next]_vars

-----------------------------------------------------------------------------
(* Calls of renameImage on bounded inputs: one image file, with or without  *)
(* a stored record, possibly a second file in the same directory            *)

RenameDirs ==
    { PathJoin(OPTIMIZED_DIR, DateFolder), PathResolve(PathJoin(OPTIMIZED_DIR, DateFolder)) }

RenameNames ==
    { <<"a",".","w","e","b","p">>, <<"b",".","w","e","b","p">>,
      <<">","a",".","w","e","b","p">>, <<"?","a",".","w","e","b","p">>,
      <<"a","b",">",".","w","e","b","p">>, <<"a","b","?",".","w","e","b","p">> }

\* a new name of 205 characters: a legal file name whose path has a base64
\* form longer than NameMax
LongName == [i \in 1..200 |-> "a"] \o <<".","w","e","b","p">>

RenameFile ==
    [size |-> 11, width |-> 8, height |-> 6, format |-> Webp, birthtime |-> 1, mtime |-> 1]

\* the state before a call: the file at oldPath, the record saveMetadata
\* stores for it when there is one, and the call about to be made
InitRename ==
    \E dir \in RenameDirs, oldName \in RenameNames,
       newFilename \in RenameNames \cup {LongName},
       other \in RenameNames, stored \in BOOLEAN :
      \E oldPath \in { PathJoin(dir, oldName) } :
      \E fl \in { Put(Put(<<>>, PathResolve(oldPath), RenameFile),
                      PathResolve(PathJoin(dir, other)), RenameFile) } :
        /\ vPath = <<>> /\ vResult = NoResult
        /\ sPartial = EmptyObject /\ sPrev = NoRecord /\ sResult = NoRecord
        /\ files = fl
        /\ dirs = MkdirP({Cwd}, dir)
        /\ meta = IF stored
                  THEN saveMetadata(<<>>, fl, oldPath, RelativeToRoot(oldPath),
                                    ToOriginals(oldPath), EmptyObject, 1).store
                  ELSE <<>>
        /\ thumbs = <<>> /\ metaCache = <<>> /\ pending = <<>>
        /\ clock = 2
        /\ steps = 0
        /\ last = [Quiet("call") EXCEPT !.target = oldPath,
                                        !.body = [newFilename |-> Str(newFilename)]]
        /\ used = <<>>

RenameCall ==
    /\ last.op = "call"
    /\ \E r \in { renameImage(files, dirs, meta, last.target, last.body.newFilename.s,
                              RelativeToRoot(last.target)) } :
         /\ files' = r.files
         /\ meta' = r.store
         /\ last' = [last EXCEPT !.op = "renameImage", !.ok = ~ r.threw,
                                 !.newPath = r.newPath]
    /\ steps' = steps + 1
    /\ UNCHANGED <<vPath, vResult, sPartial, sPrev, sResult, dirs, thumbs, metaCache,
                   pending, clock, used>>

NextRename == RenameCall

SpecRename == InitRename /\ [][NextRename]_vars

-----------------------------------------------------------------------------
(* Calls on the two caches: a SimpleCache of a small maxSize under get, set, *)
(* delete, clear and invalidateImageCache, while time passes                 *)

CachePaths == { <<"p">>, <<"q">> }

\* the empty key and the keys getCachedThumbnail forms for the paths
CacheKeys == { <<>>, ThumbnailKey(<<"p">>, 1), ThumbnailKey(<<"p">>, 2),
               ThumbnailKey(<<"q">>, 1) }

CacheTtls == { 1, CACHE_TTL }

\* the call just made on a cache and what it returned
CacheQuiet(op) ==
    [op |-> op, key |-> <<>>, ttl |-> 0, value |-> NoValue, found |-> FALSE,
     dropped |-> 0, metaDropped |-> FALSE]

\* the keys of c in the order of u, key moved to the end as the latest access
Touch(u, c, key) == Append(SelectSeq(u, LAMBDA k : k # key /\ CacheHas(c, k)), key)

\* the keys of u that c still holds
Still(u, c) == SelectSeq(u, LAMBDA k : CacheHas(c, k))

\* SimpleCache.clear
SimpleCacheClear(c) == <<>>

\* the sets made before the calls of interest, all at the time of the start
CacheSeeds ==
    { <<>>,
      <<[key |-> ThumbnailKey(<<"p">>, 1), ttl |-> 1]>>,
      <<[key |-> ThumbnailKey(<<"p">>, 1), ttl |-> 1],
        [key |-> ThumbnailKey(<<"p">>, 2), ttl |-> CACHE_TTL]>> }

\* the cache after the sets of a seed
RECURSIVE Preload(_, _)
Preload(c, seed) ==
    IF seed = <<>> THEN c
    ELSE Preload(SimpleCacheSet(c, Head(seed).key, [call |-> 0], Head(seed).ttl, 0,
                                CacheCap),
                 Tail(seed))

InitCache ==
    /\ vPath = <<>> /\ vResult = NoResult
    /\ sPartial = <<>> /\ sPrev = <<>> /\ sResult = <<>>
    /\ files = <<>> /\ dirs = {} /\ meta = <<>> /\ pending = <<>>
    /\ \E seed \in CacheSeeds :
         /\ thumbs = Preload(<<>>, seed)
         /\ used = [i \in 1..Len(seed) |-> seed[i].key]
    /\ metaCache = <<>>
    /\ clock = 0 /\ steps = 0
    /\ last = CacheQuiet("none")

\* a call on the caches returns
CacheReturn(resp) ==
    /\ last' = resp
    /\ steps' = steps + 1
    /\ UNCHANGED <<vPath, vResult, sPartial, sPrev, sResult, files, dirs, meta,
                   pending, clock>>

\* thumbnailCache.set(key, data, ttl); the data names the call that stored it
CacheSet(key, ttl) ==
    /\ steps < MaxCacheOps
    /\ \E c \in { SimpleCacheSet(thumbs, key, [call |-> steps + 1], ttl, clock, CacheCap) } :
         /\ thumbs' = c
         /\ used' = Touch(used, c, key)
         /\ CacheReturn([CacheQuiet("set") EXCEPT !.key = key, !.ttl = ttl,
                                                 !.found = CacheHas(thumbs, key)])
    /\ UNCHANGED metaCache

\* thumbnailCache.get(key)
CacheGet(key) ==
    /\ steps < MaxCacheOps
    /\ \E got \in { SimpleCacheGet(thumbs, key, clock) } :
         /\ thumbs' = got.cache
         /\ used' = IF got.value # NoValue THEN Touch(used, got.cache, key)
                    ELSE Still(used, got.cache)
         /\ CacheReturn([CacheQuiet("get") EXCEPT !.key = key, !.value = got.value,
                                                 !.found = CacheHas(thumbs, key)])
    /\ UNCHANGED metaCache

\* thumbnailCache.delete(key)
CacheDelete(key) ==
    /\ steps < MaxCacheOps
    /\ thumbs' = MapDelete(thumbs, key)
    /\ used' = Still(used, thumbs')
    /\ CacheReturn([CacheQuiet("delete") EXCEPT !.key = key,
                                               !.found = CacheHas(thumbs, key)])
    /\ UNCHANGED metaCache

\* thumbnailCache.clear()
CacheClear ==
    /\ steps < MaxCacheOps
    /\ thumbs' = SimpleCacheClear(thumbs)
    /\ used' = <<>>
    /\ CacheReturn(CacheQuiet("clear"))
    /\ UNCHANGED metaCache

\* metadataCache.set(imagePath, data)
MetaSet(imagePath) ==
    /\ steps < MaxCacheOps
    /\ metaCache' = SimpleCacheSet(metaCache, imagePath, [call |-> steps + 1], CACHE_TTL, clock,
                                   CacheCap)
    /\ CacheReturn([CacheQuiet("metaSet") EXCEPT !.key = imagePath])
    /\ UNCHANGED <<thumbs, used>>

\* invalidateImageCache(imagePath)
CacheInvalidate(imagePath) ==
    /\ steps < MaxCacheOps
    /\ \E inv \in { invalidateImageCache(thumbs, metaCache, imagePath) } :
         /\ thumbs' = inv.thumbs
         /\ metaCache' = inv.metaCache
         /\ used' = Still(used, inv.thumbs)
         /\ CacheReturn([CacheQuiet("invalidate") EXCEPT
                            !.key = imagePath,
                            !.dropped = Len(thumbs) - Len(inv.thumbs),
                            !.metaDropped = CacheHas(metaCache, imagePath)])

\* Date.now() moves on between two calls
CacheTick ==
    /\ clock < MaxCacheClock
    /\ clock' = clock + 1
    /\ UNCHANGED <<vPath, vResult, sPartial, sPrev, sResult, files, dirs, meta,
                   thumbs, metaCache, pending, steps, last, used>>

NextCache ==
    \/ \E key \in CacheKeys, ttl \in CacheTtls : CacheSet(key, ttl)
    \/ \E key \in CacheKeys : CacheGet(key)
    \/ \E key \in CacheKeys : CacheDelete(key)
    \/ CacheClear
    \/ \E imagePath \in CachePaths : MetaSet(imagePath)
    \/ \E imagePath \in CachePaths : CacheInvalidate(imagePath)
    \/ CacheTick

SpecCache == InitCache /\ [][NextCache]_vars

-----------------------------------------------------------------------------
(* POST /optimize with several files, and optimizeImage called directly *)

\* an upload wider than DEFAULT_WIDTH
WideUpload ==
    [name |-> <<"w",".","j","p","g">>, size |-> 30, width |-> 2000, height |-> 1500,
     format |-> Jpeg, fails |-> {}]

\* an upload whose name validateFileType refuses
TextUpload ==
    [name |-> <<"n",".","t","x","t">>, size |-> 5, width |-> 1, height |-> 1,
     format |-> Jpeg, fails |-> {}]

\* an upload the codec cannot write in the formats of fails
BrokenUpload(fails) ==
    [name |-> <<"f",".","j","p","g">>, size |-> 10, width |-> 4, height |-> 2,
     format |-> Jpeg, fails |-> fails]

BatchRequests ==
    { [files |-> <<>>, format |-> Webp, width |-> NoField, quality |-> NoField],
      [files |-> <<Upload>>, format |-> Jpeg, width |-> <<"4">>, quality |-> <<"2","0","0">>],
      [files |-> <<Upload>>, format |-> NoField, width |-> <<"-","5">>, quality |-> <<"x">>],
      [files |-> <<TextUpload, Upload>>, format |-> Webp, width |-> NoField,
       quality |-> NoField],
      [files |-> <<BrokenUpload({Webp}), Upload>>, format |-> Webp, width |-> NoField,
       quality |-> NoField],
      [files |-> <<Upload, BrokenUpload({Jpeg})>>, format |-> Both, width |-> NoField,
       quality |-> NoField],
      [files |-> <<WideUpload>>, format |-> Webp, width |-> <<"0">>, quality |-> NoField],
      [files |-> <<WideUpload>>, format |-> Webp, width |-> <<"3","0","0","0">>,
       quality |-> NoField] }

\* the arguments of the direct calls
DirectCalls ==
    { [buffer |-> WideUpload, options |-> [width |-> 0, quality |-> 85, format |-> Webp]],
      [buffer |-> WideUpload, options |-> [width |-> 100, quality |-> 85, format |-> Jpeg]] }
    \cup { [buffer |-> BrokenUpload(fs),
            options |-> [width |-> 0, quality |-> 85, format |-> Both]] :
             fs \in SUBSET {Jpeg, Webp} }

InitOptimize == Init

\* optimizeImage(buffer, originalName, options) called as a library function
OptimizeImageCall(call) ==
    /\ steps < MaxSteps
    /\ \E r \in { optimizeImage(files, dirs, meta, call.buffer, call.buffer.name,
                                call.options, clock) } :
         /\ files' = r.files
         /\ dirs' = r.dirs
         /\ meta' = r.store
         /\ Served([Quiet("optimizeImage") EXCEPT
                       !.ok = ~ r.threw,
                       !.results = r.results,
                       !.request = call])
    /\ UNCHANGED <<thumbs, metaCache, pending>>

NextOptimize ==
    \/ \E req \in BatchRequests : steps < MaxBatchSteps /\ Optimize(req)
    \/ \E call \in DirectCalls : steps < MaxBatchSteps /\ OptimizeImageCall(call)

SpecOptimize == InitOptimize /\ [][NextOptimize]_vars

-----------------------------------------------------------------------------
(* Calls of validateImagePath on the spellings of an asset's path *)

\* paths of assets relative to the output root: two derivatives in a date
\* bucket and a file below a directory that has the root's name
AssetPaths ==
    { DateFolder \o <<"/","a",".","j","p","g">>,
      DateFolder \o <<"/">> \o OPTIMIZED_DIR \o <<".","w","e","b","p">>,
      <<"x","/">> \o OPTIMIZED_DIR \o <<"/","a",".","j","p","g">> }

\* the root segment as a client may write it
RootSpellings ==
    { OPTIMIZED_DIR,
      <<"O","P","T","I","M","I","Z","E","D">>,
      <<"O","p","t","i","m","i","z","e","d">> }

Separators == { <<"/">>, <<"\\">> }

\* the positions of the separators of a path
SeparatorsOf(p) == { i \in 1..Len(p) : p[i] = "/" }

\* the path with the separators at the given positions written as backslashes
WithBackslashes(p, at) == [i \in 1..Len(p) |-> IF i \in at THEN "\\" ELSE p[i]]

\* the spellings of an asset's path: any of its separators as a backslash,
\* and the root segment in front or not
SpellingsOf(asset) ==
    { pre \o WithBackslashes(asset, at) :
        pre \in {<<>>} \cup { r \o sep : r \in RootSpellings, sep \in Separators },
        at \in SUBSET SeparatorsOf(asset) }

InitSpelling ==
    /\ \E asset \in AssetPaths :
         /\ vPath \in SpellingsOf(asset)
         /\ last = [Quiet("spelling") EXCEPT !.target = asset]
    /\ vResult = NoResult
    /\ sPartial = <<>> /\ sPrev = <<>> /\ sResult = <<>>
    /\ files = <<>> /\ dirs = {} /\ meta = <<>>
    /\ thumbs = <<>> /\ metaCache = <<>> /\ pending = <<>>
    /\ clock = 0 /\ steps = 0 /\ used = <<>>

SpecSpelling == InitSpelling /\ [][Validate]_vars

-----------------------------------------------------------------------------
(* validateImagePath on the canonical paths of the derivatives that POST    *)
(* /optimize wrote                                                          *)

\* upload filenames that validateFileType accepts
UploadNames ==
    { <<"a",".","j","p","g">>,
      <<"A",".","J","P","G">>,
      <<"a"," ","b",".","p","n","g">>,
      <<"a",".",".","b",".","j","p","g">> }

DerivativeRequests ==
    { [files |-> <<[Upload EXCEPT !.name = n]>>, format |-> f, width |-> NoField,
       quality |-> NoField] : n \in UploadNames, f \in {Webp, Both} }

\* the path of a derivative relative to the output root, with forward slashes
CanonicalPath(output) == ReplaceChar(PathRelative(OPTIMIZED_DIR, output), "\\", "/")

InitDerivative == Init

\* validateImagePath on the canonical path of a derivative of the last request
ValidateDerivative ==
    /\ last.op = "optimize"
    /\ \E j \in 1..Len(last.results) :
         /\ vPath' = CanonicalPath(last.results[j].output)
         /\ vResult' = validateImagePath(CanonicalPath(last.results[j].output),
                                         OPTIMIZED_DIR)
    /\ UNCHANGED <<sPartial, sPrev, sResult, files, dirs, meta, thumbs, metaCache,
                   pending, clock, steps, last, used>>

NextDerivative ==
    \/ \E req \in DerivativeRequests : steps < MaxDerivativeSteps /\ Optimize(req)
    \/ ValidateDerivative

SpecDerivative == InitDerivative /\ [][NextDerivative]_vars

-----------------------------------------------------------------------------
(* The handlers that look a file up by name, on a store that holds the      *)
(* derivative of an upload named a..b.jpg                                   *)

DottedUpload == [Upload EXCEPT !.name = <<"a",".",".","b",".","j","p","g">>]

\* the store after POST /optimize of DottedUpload in format webp
AfterDottedUpload ==
    optimizeImage(<<>>, {Cwd}, <<>>, DottedUpload, DottedUpload.name,
                  [width |-> DEFAULT_WIDTH, quality |-> DEFAULT_QUALITY, format |-> Webp], 0)

\* request paths that pass validateImagePath and name no file of the store,
\* and the canonical path of the derivative
LookupPaths ==
    { <<"b",".","w","e","b","p">>,
      DateFolder \o <<"/","b",".","w","e","b","p">>,
      DateFolder \o <<"/","a",".",".","b",".","w","e","b","p">> }

InitLookup ==
    /\ vPath = <<>> /\ vResult = NoResult
    /\ sPartial = EmptyObject /\ sPrev = NoRecord /\ sResult = NoRecord
    /\ files = AfterDottedUpload.files
    /\ dirs = AfterDottedUpload.dirs
    /\ meta = AfterDottedUpload.store
    /\ thumbs = <<>>
    /\ metaCache = <<>>
    /\ pending = <<>>
    /\ clock = 1
    /\ steps = 0
    /\ last = Quiet("none")
    /\ used = <<>>

NextLookup ==
    \/ \E p \in LookupPaths : Download(p)
    \/ \E p \in LookupPaths : PreviewRoute(p)
    \/ \E p \in LookupPaths : PreviewMw(p)
    \/ \E i \in 1..MaxPending, delivered \in BOOLEAN : PreviewFinish(i, delivered)
    \/ \E p \in LookupPaths : GetMetadataRoute(p)
    \/ \E p \in LookupPaths : GetMetadataMw(p)
    \/ \E p \in LookupPaths, body \in PutBodies : PutMetadataRoute(p, body)
    \/ \E p \in LookupPaths, body \in PutBodies : PutMetadataMw(p, body)
    \/ \E p \in LookupPaths, body \in RenameBodies : RenameRoute(p, body)
    \/ \E p \in LookupPaths, body \in RenameBodies : RenameMw(p, body)
    \/ \E paths \in SeqsUpTo(LookupPaths, MaxBulk) : BulkDelete(paths)

SpecLookup == InitLookup /\ [][NextLookup]_vars

-----------------------------------------------------------------------------
(* Concurrent calls of saveMetadata on one image.  A call runs from its     *)
(* start to its first await in one step; the only await of saveMetadata is  *)
(* the one on extractImageMetadata, taken when no record was loaded.        *)

\* a save that waits for extractImageMetadata whatever it loaded
SuspendsAlways(existing) == TRUE

\* if (!existing) { const technical = await extractImageMetadata(...) ... }
SuspendsAtExtract(existing) == existing = NoRecord

ConcurrentPartials ==
    { [title |-> Str(<<"T">>)],
      [altText |-> Str(<<"A">>)],
      [caption |-> Str(<<"C">>)],
      [title |-> Str(<<"T","2">>), altText |-> Str(<<"A","2">>)],
      [keywords |-> Arr(<<<<"k","3">>>>), description |-> Str(<<"D">>)] }

InitConcurrent ==
    /\ sPrev \in PrevRecords
    /\ sPartial = EmptyObject
    /\ sResult = NoRecord
    /\ files = SaveFiles
    /\ meta = IF sPrev = NoRecord THEN <<>>
              ELSE [key \in {getMetadataPath(SaveImagePath)} |-> sPrev]
    /\ clock = SaveClock
    /\ vPath = <<>> /\ vResult = NoResult
    /\ dirs = {} /\ thumbs = <<>> /\ metaCache = <<>> /\ pending = <<>>
    /\ steps = 0 /\ used = <<>>
    /\ last = [op |-> "none", calls |-> <<>>, overlapped |-> FALSE]

\* the merge and the write of saveMetadata, from the record the call holds
WriteMerged(existing, metadata) ==
    Bind(MergeRecord(IF existing = NoRecord
                     THEN SynthesizeRecord(files, SaveImagePath, SaveRelativePath,
                                           SaveImagePath, clock)
                     ELSE existing,
                     metadata, SaveImagePath, SaveRelativePath, clock), LAMBDA updated :
        /\ meta' = Put(meta, getMetadataPath(SaveImagePath), JsonRoundTrip(updated))
        /\ sResult' = updated)

\* a call of saveMetadata up to its await, or to its end when it has none
SaveBegin(metadata) ==
    /\ steps < MaxSaves
    /\ steps' = steps + 1
    /\ clock' = clock + 1
    /\ sPartial' = metadata
    /\ \E existing \in { loadMetadata(meta, SaveImagePath) } :
         IF SuspendsAtExtract(existing)
         THEN /\ pending' = Append(pending, [existing |-> existing, metadata |-> metadata])
              /\ UNCHANGED <<meta, sResult>>
         ELSE /\ WriteMerged(existing, metadata)
              /\ UNCHANGED pending
    /\ last' = [op |-> "begin", calls |-> Append(last.calls, metadata),
                overlapped |-> last.overlapped \/ pending # <<>>]
    /\ UNCHANGED <<vPath, vResult, sPrev, files, dirs, thumbs, metaCache, used>>

\* a suspended call resumes after extractImageMetadata and runs to its end
SaveResume(i) ==
    /\ i \in 1..Len(pending)
    /\ clock' = clock + 1
    /\ WriteMerged(pending[i].existing, pending[i].metadata)
    /\ pending' = SubSeq(pending, 1, i - 1) \o SubSeq(pending, i + 1, Len(pending))
    /\ last' = [last EXCEPT !.op = "resume"]
    /\ UNCHANGED <<vPath, vResult, sPartial, sPrev, files, dirs, thumbs, metaCache,
                   steps, used>>

NextConcurrent ==
    \/ \E metadata \in ConcurrentPartials : SaveBegin(metadata)
    \/ \E i \in 1..MaxSaves : SaveResume(i)

SpecConcurrent == InitConcurrent /\ [][NextConcurrent]_vars

-----------------------------------------------------------------------------
(* The rename handlers on a store that holds the derivative of a.jpg, with  *)
(* new names that carry directory parts                                     *)

AfterUpload ==
    optimizeImage(<<>>, {Cwd}, <<>>, Upload, Upload.name,
                  [width |-> DEFAULT_WIDTH, quality |-> DEFAULT_QUALITY, format |-> Webp], 0)

\* new names that pass the handler's checks: a string with an image extension
MovingBodies ==
    { [newFilename |-> Str(pre \o name)] :
        pre \in { <<>>, <<".",".","/">>, <<".",".","/",".",".","/">>,
                  <<".",".","/",".",".","/",".",".","/",".",".","/">> },
        name \in { <<"b",".","w","e","b","p">>, <<"c",".","p","n","g">>,
                   <<" ","d",".","w","e","b","p"," ">> } }

MovingPaths ==
    { CanonA,
      DateFolder \o <<"/","b",".","w","e","b","p">>,
      <<"2","0","2","5","/","1","0","/","b",".","w","e","b","p">>,
      <<"b",".","w","e","b","p">> }

InitMoving ==
    /\ vPath = <<>> /\ vResult = NoResult
    /\ sPartial = EmptyObject /\ sPrev = NoRecord /\ sResult = NoRecord
    /\ files = AfterUpload.files
    /\ dirs = AfterUpload.dirs
    /\ meta = AfterUpload.store
    /\ thumbs = <<>>
    /\ metaCache = <<>>
    /\ pending = <<>>
    /\ clock = 1
    /\ steps = 0
    /\ last = Quiet("none")
    /\ used = <<>>

NextMoving ==
    \/ \E p \in MovingPaths, body \in MovingBodies : RenameRoute(p, body)
    \/ \E p \in MovingPaths, body \in MovingBodies : RenameMw(p, body)

SpecMoving == InitMoving /\ [][NextMoving]_vars

-----------------------------------------------------------------------------
(* POST /optimize with upload filenames that carry directory parts          *)

\* filenames as the multipart body gives them; validateFileType accepts each
ArchiveNames ==
    { <<"a",".","j","p","g">>,
      <<"s","/","x",".","j","p","g">>,
      <<".",".","/","x",".","j","p","g">>,
      <<".",".","/",".",".","/",".",".","/",".",".","/","x",".","j","p","g">> }

ArchiveRequests ==
    { [files |-> <<[Upload EXCEPT !.name = n]>>, format |-> f, width |-> NoField,
       quality |-> NoField] : n \in ArchiveNames, f \in {Webp, Both} }

InitArchive == Init

NextArchive == \E req \in ArchiveRequests : Optimize(req)

SpecArchive == InitArchive /\ [][NextArchive]_vars

-----------------------------------------------------------------------------
(* Claims about validateImagePath *)

Called == vResult # NoResult

\* a segment of the input, "/" and "\" both taken as separators
Segments(p) == Split(ReplaceChar(p, "\\", "/"))

HasDotDotSegment(p) == \E i \in 1..Len(Segments(p)) : Segments(p)[i] = DotDot

LeadingSeparator(p) == Len(p) > 0 /\ p[1] \in {"/", "\\"}

\* C1: every input with a ".." segment or a leading separator (forward slash or
\* backslash) is refused with the traversal error
C1_TraversalRefused ==
    (Called /\ (HasDotDotSegment(vPath) \/ LeadingSeparator(vPath)))
        => (~ vResult.valid /\ vResult.error = ErrTraversal)

\* the resolved path lies strictly below the resolved base directory
StrictDescendant(filePath, baseDir) ==
    /\ IsAbsolute(filePath)
    /\ StartsWith(filePath, PathResolve(baseDir) \o <<"/">>)
    /\ Len(filePath) > Len(PathResolve(baseDir)) + 1
    /\ PathResolve(filePath) = filePath

\* C2: a valid result names an absolute path strictly below the resolved base
\* directory, never the base directory itself
C2_ValidIsDescendant ==
    (Called /\ vResult.valid) => StrictDescendant(vResult.filePath, OPTIMIZED_DIR)

-----------------------------------------------------------------------------
(* Claims about saveMetadata *)

Saved == sResult # NoRecord

Persisted == meta[getMetadataPath(SaveImagePath)]

\* the fields saveMetadata sets itself, whatever the caller provides
StampedFields == {"updatedAt", "path", "relativePath"}

\* the statement of C6 as claimed: every provided field has the provided value
\* in the returned and in the persisted record, every omitted field keeps the
\* value of the record stored before
C6_AsClaimed ==
    Saved =>
        /\ \A f \in DOMAIN sPartial :
               Get(sResult, f) = sPartial[f] /\ Get(Persisted, f) = sPartial[f]
        /\ sPrev # NoRecord =>
               \A f \in (DOMAIN sPrev) \ (DOMAIN sPartial) :
                   Get(sResult, f) = sPrev[f] /\ Get(Persisted, f) = sPrev[f]

\* C6 (amended): every provided field has the provided value (an empty string or
\* array included) and every omitted field keeps the stored value, except that
\* path and relativePath are those of the call, updatedAt is the time of the
\* call, and an empty filename leaves the stored filename
C6_MergeSemantics ==
    Saved =>
        /\ \A f \in (DOMAIN sPartial) \ (StampedFields \cup {"filename"}) :
               Get(sResult, f) = sPartial[f] /\ Get(Persisted, f) = sPartial[f]
        /\ ("filename" \in DOMAIN sPartial /\ Truthy(sPartial["filename"])) =>
               (sResult["filename"] = sPartial["filename"]
                /\ Persisted["filename"] = sPartial["filename"])
        /\ sPrev # NoRecord =>
               /\ \A f \in (DOMAIN sPrev) \ ((DOMAIN sPartial) \cup StampedFields) :
                      Get(sResult, f) = sPrev[f] /\ Get(Persisted, f) = sPrev[f]
               /\ ("filename" \in DOMAIN sPartial /\ ~ Truthy(sPartial["filename"])) =>
                      (sResult["filename"] = sPrev["filename"]
                       /\ Persisted["filename"] = sPrev["filename"])
        /\ sResult["updatedAt"] = IsoDate(clock)
        /\ sResult["path"] = Str(SaveImagePath)
        /\ sResult["relativePath"] = Str(SaveRelativePath)
        /\ Persisted = JsonRoundTrip(sResult)

\* a save over an edited record that provides an empty title and empty keywords
\* and omits altText
C6_Witness ==
    /\ Saved
    /\ sPrev = EditedRecord
    /\ DOMAIN sPartial = {"title", "keywords"}
    /\ sPartial["title"] = Str(<<>>)
    /\ sPartial["keywords"] = Arr(<<>>)
    /\ Persisted["title"] = Str(<<>>)
    /\ Persisted["altText"] = EditedRecord["altText"]

-----------------------------------------------------------------------------
(* Claims about renameImage *)

\* C8 as claimed: after renameImage has relocated a file that had a record,
\* loading at the old path returns null and loading at the new path returns a
\* record whose filename is the new filename; with no record at the old key
\* the store is left as it was
C8_RecordFollowsRename ==
    [][ (last'.op = "renameImage" /\ last'.ok) =>
          IF getMetadataPath(last'.target) \in DOMAIN meta
          THEN /\ loadMetadata(meta', last'.target) = NoRecord
               /\ loadMetadata(meta', last'.newPath) # NoRecord
               /\ Get(loadMetadata(meta', last'.newPath), "filename")
                    = last'.body.newFilename
          ELSE meta' = meta ]_vars

-----------------------------------------------------------------------------
(* Claims about the handlers *)

PathOps == {"download", "preview", "getMetadata", "putMetadata", "rename", "delete"}

\* C3 as claimed: a request whose path fails validation is answered with an
\* error and changes no file, record or cache entry; in a bulk delete a listed
\* path that fails validation is reported as failed and nothing is removed
\* for it
C3_InvalidPathTouchesNothing ==
    [][ (steps' = steps + 1) =>
          /\ (last'.op \in PathOps /\ ~ last'.valid) =>
                (~ last'.ok /\ UNCHANGED <<files, meta, thumbs, metaCache>>)
          /\ (last'.op = "bulkDelete") =>
                /\ \A i \in 1..Len(last'.results) :
                      ~ last'.results[i].valid => ~ last'.results[i].success
                /\ (\A i \in 1..Len(last'.results) : ~ last'.results[i].valid) =>
                      UNCHANGED <<files, meta, thumbs, metaCache>> ]_vars

\* the derivative files: the regular files below the output root
Derivatives == { d \in DOMAIN files : StartsWith(d, PathResolve(OPTIMIZED_DIR) \o <<"/">>) }

\* the record files whose record names the file at absolute path d
RecordsOf(store, d) ==
    { k \in DOMAIN store : PathResolve(Get(store[k], "path").s) = d }

\* C4 as claimed: at most one record file exists per derivative
C4_OneRecordPerDerivative ==
    \A d \in Derivatives : Cardinality(RecordsOf(meta, d)) <= 1

\* C5 as claimed: every stored record's path is the location of an existing
\* derivative and its relativePath is that location relative to the output root
C5_RecordsPointAtDerivatives ==
    \A k \in DOMAIN meta :
        \E d \in Derivatives :
            /\ PathResolve(Get(meta[k], "path").s) = d
            /\ Get(meta[k], "relativePath").s = PathRelative(OPTIMIZED_DIR, d)

SeoFields == {"title", "altText", "description", "caption", "keywords"}

\* C7 as claimed: a put-metadata request on an asset with a stored record
\* leaves that record with the supplied SEO fields at the supplied values and
\* every other SEO field at its previous value
C7_PutOverwritesOnlySupplied ==
    [][ (steps' = steps + 1 /\ last'.op = "putMetadata" /\ last'.ok
         /\ getMetadataPath(last'.target) \in DOMAIN meta) =>
          \A f \in SeoFields :
              Get(meta'[getMetadataPath(last'.target)], f)
                = IF f \in DOMAIN last'.body THEN last'.body[f]
                  ELSE Get(meta[getMetadataPath(last'.target)], f) ]_vars

\* the spellings of a file's path that the handlers and the transcoder use
Spellings(p) == { PathResolve(p), RelToCwd(PathResolve(p)) }

\* no thumbnail-cache key begins with a spelling of p and the metadata cache
\* has no entry for one
Uncached(th, mc, p) ==
    /\ \A i \in 1..Len(th) : \A q \in Spellings(p) : ~ StartsWith(th[i].key, q)
    /\ \A i \in 1..Len(mc) : mc[i].key \notin Spellings(p)

\* C9 as claimed: after a successful delete the file is absent, the store
\* holds no record of it and the caches hold no entry for its path
C9_DeleteRemovesAll ==
    [][ (steps' = steps + 1 /\ last'.op = "delete" /\ last'.ok) =>
          /\ PathResolve(last'.target) \notin DOMAIN files'
          /\ RecordsOf(meta', PathResolve(last'.target)) = {}
          /\ Uncached(thumbs', metaCache', last'.target) ]_vars

\* C10: when a rename has been answered with success, no thumbnail-cache key
\* begins with the old or the new path and the metadata cache has no entry
\* for either
C10_RenameInvalidatesBoth ==
    [][ (steps' = steps + 1 /\ last'.op = "rename" /\ last'.ok) =>
          /\ Uncached(thumbs', metaCache', last'.target)
          /\ Uncached(thumbs', metaCache', last'.newPath) ]_vars

\* a rename has succeeded and has removed a cached thumbnail
C10_Witness == last.op = "rename" /\ last.ok /\ last.dropped > 0

-----------------------------------------------------------------------------
(* Claims about the caches *)

KeysOf(c) == { c[i].key : i \in 1..Len(c) }

\* C11: invalidateImageCache(P) leaves no thumbnail key that starts with P and
\* no metadata-cache entry for P, and a get of any such key made at once
\* afterwards misses
C11_InvalidateRemovesVariants ==
    [][ (steps' = steps + 1 /\ last'.op = "invalidate") =>
          /\ \A k \in KeysOf(thumbs) :
                StartsWith(k, last'.key) => ~ CacheHas(thumbs', k)
          /\ ~ CacheHas(metaCache', last'.key)
          /\ \A k \in CacheKeys \cup KeysOf(thumbs) :
                StartsWith(k, last'.key) =>
                    SimpleCacheGet(thumbs', k, clock').value = NoValue
          /\ SimpleCacheGet(metaCache', last'.key, clock').value = NoValue ]_vars

\* an invalidation has removed two size variants and the metadata entry
C11_Witness == last.op = "invalidate" /\ last.dropped = 2 /\ last.metaDropped

\* C12 as claimed: a set of a new key into a cache that holds maxSize entries
\* evicts exactly one entry, the one whose latest access is the oldest
C12_EvictsLeastRecentlyUsed ==
    [][ (steps' = steps + 1 /\ last'.op = "set" /\ ~ last'.found
         /\ Len(thumbs) = CacheCap) =>
          KeysOf(thumbs') = (KeysOf(thumbs) \ {Head(used)}) \cup {last'.key} ]_vars

\* C13: a set stores the entry with the time of the set; a get returns the
\* stored value exactly while now minus that time does not exceed ttl and
\* leaves the entry's time and ttl as they were; the first get after that
\* removes the entry and misses
C13_TtlFromInsertion ==
    [][ /\ (steps' = steps + 1 /\ last'.op = "set") =>
              /\ CacheHas(thumbs', last'.key)
              /\ CacheEntryOf(thumbs', last'.key).timestamp = clock
              /\ CacheEntryOf(thumbs', last'.key).ttl = last'.ttl
        /\ (steps' = steps + 1 /\ last'.op = "get") =>
              IF ~ CacheHas(thumbs, last'.key) THEN last'.value = NoValue
              ELSE IF clock - CacheEntryOf(thumbs, last'.key).timestamp
                        <= CacheEntryOf(thumbs, last'.key).ttl
              THEN /\ last'.value = CacheEntryOf(thumbs, last'.key).data
                   /\ CacheHas(thumbs', last'.key)
                   /\ CacheEntryOf(thumbs', last'.key) = CacheEntryOf(thumbs, last'.key)
              ELSE /\ last'.value = NoValue
                   /\ ~ CacheHas(thumbs', last'.key) ]_vars

\* a get has found its entry past its ttl and has missed
C13_Witness == last.op = "get" /\ last.found /\ last.value = NoValue

\* C14 as claimed: neither cache ever stores more than maxSize entries
C14_SizeBounded == Len(thumbs) <= CacheCap /\ Len(metaCache) <= CacheCap

-----------------------------------------------------------------------------
(* Claims about optimize *)

\* the formats a format option stands for
FormatsOf(format) == IF format = Both THEN {Jpeg, Webp} ELSE {format}

\* where optimizeImage puts the derivative of an upload in a format
DerivativeOf(name, format) ==
    PathJoin(PathJoin(OPTIMIZED_DIR, DateFolder), PathParseName(name) \o <<".">> \o format)

\* the format option POST /optimize passes on
RequestedFormat(req) == IF Len(req.format) > 0 THEN req.format ELSE DEFAULT_FORMAT

\* the file is refused by the validation or one of its encodes fails
BadFile(f, format) ==
    \/ ~ validateFileType(f.name)
    \/ ~ validateFileSize(f.size, MAX_FILE_SIZE)
    \/ f.fails \cap FormatsOf(format) # {}

\* C15 as claimed: after an optimize request with several files, every file
\* that is neither refused by the validation nor failing to transcode has its
\* derivatives written by this request and listed in the response, and every
\* other file has exactly one error entry in the response
C15_BadFileIsolated ==
    [][ (steps' = steps + 1 /\ last'.op = "optimize" /\ Len(last'.request.files) >= 2) =>
          \A i \in 1..Len(last'.request.files) :
            LET f == last'.request.files[i]
                format == RequestedFormat(last'.request)
            IN IF BadFile(f, format)
               THEN Cardinality({ j \in 1..Len(last'.errors) : last'.errors[j] = f.name }) = 1
               ELSE \A g \in FormatsOf(format) :
                      /\ IsFileIn(files', DerivativeOf(f.name, g))
                      /\ files'[PathResolve(DerivativeOf(f.name, g))].mtime = clock
                      /\ \E j \in 1..Len(last'.results) :
                            last'.results[j].output = DerivativeOf(f.name, g) ]_vars

\* the derivative of an upload in a format was written, and its record was
\* saved, at the given time
EncodedAt(fl, store, name, format, now) ==
    /\ IsFileIn(fl, DerivativeOf(name, format))
    /\ fl[PathResolve(DerivativeOf(name, format))].mtime = now
    /\ loadMetadata(store, DerivativeOf(name, format)) # NoRecord
    /\ Get(loadMetadata(store, DerivativeOf(name, format)), "updatedAt")
         = Get(JsonRoundTrip([updatedAt |-> IsoDate(now)]), "updatedAt")

\* C19: a call of optimizeImage with format "both" in which the encode or
\* the write of one format fails still writes the derivative of every other
\* format and saves its metadata record
C19_EncodesIndependent ==
    [][ (/\ steps' = steps + 1
         /\ last'.op = "optimizeImage"
         /\ last'.request.options.format = Both) =>
          \A g \in {Jpeg, Webp} \ last'.request.buffer.fails :
              EncodedAt(files', meta', last'.request.buffer.name, g, clock) ]_vars

\* the jpeg encode failed and the webp derivative and its record are there
C19_Witness ==
    /\ last.op = "optimizeImage"
    /\ last.request.options.format = Both
    /\ last.request.buffer.fails = {Jpeg}
    /\ ~ last.ok
    /\ EncodedAt(files, meta, last.request.buffer.name, Webp, clock - 1)

\* every derivative the step wrote for the upload has the upload's dimensions
NativeSize(fl, upload, format) ==
    \A g \in FormatsOf(format) \ upload.fails :
        /\ IsFileIn(fl, DerivativeOf(upload.name, g))
        /\ fl[PathResolve(DerivativeOf(upload.name, g))].width = upload.width
        /\ fl[PathResolve(DerivativeOf(upload.name, g))].height = upload.height

\* C20 as claimed: a width of 0 leaves the derivative at the source's
\* dimensions, in a direct call of optimizeImage with options.width = 0 and
\* in an optimize request whose width field is 0
C20_ZeroWidthKeepsSize ==
    [][ /\ (/\ steps' = steps + 1
            /\ last'.op = "optimizeImage"
            /\ last'.request.options.width = 0) =>
              NativeSize(files', last'.request.buffer, last'.request.options.format)
        /\ (/\ steps' = steps + 1
            /\ last'.op = "optimize"
            /\ last'.request.width = <<"0">>
            /\ Len(last'.request.files) > 0
            /\ Len(validationErrors(last'.request.files)) = 0) =>
              \A i \in 1..Len(last'.request.files) :
                  NativeSize(files', last'.request.files[i],
                             RequestedFormat(last'.request)) ]_vars

-----------------------------------------------------------------------------
(* Further claims about validateImagePath *)

\* C16: every spelling of an asset's path that validateImagePath accepts
\* (with or without the root segment in front, the root segment in any letter
\* case, any separator as a backslash) resolves to one absolute path, the
\* asset's location
C16_SpellingsAgree ==
    (vResult # NoResult /\ last.op = "spelling" /\ vResult.valid) =>
        vResult.filePath = PathResolve(PathJoin(OPTIMIZED_DIR, last.target))

\* an accepted spelling with the root segment in capitals and only
\* backslashes
C16_Witness ==
    /\ vResult # NoResult /\ last.op = "spelling" /\ vResult.valid
    /\ StartsWith(vPath, <<"O","P","T","I","M","I","Z","E","D","\\">>)
    /\ ~ Includes(vPath, <<"/">>)
    /\ vResult.filePath = PathResolve(PathJoin(OPTIMIZED_DIR, last.target))

\* the input is the base-directory name alone, in any letter case
BareBase(p) == ToLowerCase(p) = OPTIMIZED_DIR

\* the input names no file: it is empty, or the base-directory name alone, or
\* separators only, or the base-directory name followed only by separators
NamesNoFile(p) ==
    LET q == ToLowerCase(ReplaceChar(p, "\\", "/"))
        rest == IF StartsWith(q, OPTIMIZED_DIR)
                THEN SubSeq(q, Len(OPTIMIZED_DIR) + 1, Len(q)) ELSE q
    IN \A i \in 1..Len(rest) : rest[i] = "/"

\* C17: validateImagePath refuses every input that names no file, and refuses
\* the base-directory name alone with the error that asks for a file path
C17_NoFileRefused ==
    (vResult # NoResult /\ NamesNoFile(vPath)) =>
        /\ ~ vResult.valid
        /\ BareBase(vPath) => vResult.error = ErrNoFile

\* the base-directory name in capitals followed by a backslash and a slash
\* was refused as empty
C17_Witness ==
    /\ vResult # NoResult
    /\ vPath = <<"O","P","T","I","M","I","Z","E","D","\\","/">>
    /\ ~ vResult.valid /\ vResult.error = ErrEmpty

\* C18 as claimed: validateImagePath accepts the canonical relative path of
\* every derivative that optimize wrote for an accepted upload, and returns
\* the absolute path of that derivative file
C18_DerivativePathsAccepted ==
    [][ (steps' = steps /\ (vPath' # vPath \/ vResult' # vResult)) =>
          /\ vResult'.valid
          /\ vResult'.filePath = PathResolve(PathJoin(OPTIMIZED_DIR, vPath'))
          /\ vResult'.filePath \in DOMAIN files' ]_vars

-----------------------------------------------------------------------------
(* Claims about the handlers, continued *)

\* C21 as claimed: a get-metadata request answered with success for an
\* existing derivative carries a record, never null, and that record is the
\* one persisted for the derivative
C21_GetNeverNull ==
    [][ (steps' = steps + 1 /\ last'.op = "getMetadata" /\ last'.ok) =>
          /\ last'.metadata # NoRecord
          /\ loadMetadata(meta', last'.target) # NoRecord
          /\ loadMetadata(meta', last'.target) = JsonRoundTrip(last'.metadata) ]_vars

\* the first segment of the input is longer than the base-directory name and
\* starts with it, in any letter case
MerelyStartsWithBase(p) ==
    LET segs == Split(ReplaceChar(p, "\\", "/"))
    IN /\ Len(segs) > 1
       /\ Len(segs[1]) > Len(OPTIMIZED_DIR)
       /\ StartsWith(ToLowerCase(segs[1]), OPTIMIZED_DIR)

\* C22 as claimed: an input whose first segment merely starts with the
\* base-directory name is not stripped: it is accepted and resolves to the
\* path of that name below the base directory
C22_PartialPrefixKept ==
    (/\ vResult # NoResult
     /\ MerelyStartsWithBase(vPath)
     /\ ~ Includes(vPath, DotDot)) =>
        /\ vResult.valid
        /\ vResult.filePath
             = PathResolve(PathJoin(OPTIMIZED_DIR, ReplaceChar(vPath, "\\", "/")))

\* the file's path relative to the output root passes validateImagePath
\* and resolves to the file
Revalidates(filePath) ==
    /\ validateImagePath(RelativeToRoot(filePath), OPTIMIZED_DIR).valid
    /\ validateImagePath(RelativeToRoot(filePath), OPTIMIZED_DIR).filePath
         = PathResolve(filePath)

\* C23 as claimed: the file a handler serves, reads, updates, renames or
\* deletes is one whose path relative to the output root passes
\* validateImagePath, also when the handler found it by its name
C23_FoundFileRevalidated ==
    [][ (steps' = steps + 1) =>
          /\ (/\ last'.op \in {"download", "preview", "previewStarted", "getMetadata",
                              "putMetadata", "rename"}
              /\ last'.ok \/ last'.op = "previewStarted") =>
                Revalidates(last'.target)
          /\ last'.op = "bulkDelete" =>
                \A i \in 1..Len(last'.results) :
                    last'.results[i].success => Revalidates(last'.results[i].target) ]_vars

\* C24 as claimed: a call of renameImage that reports failure leaves the file
\* at its old path, the record under its old key with its contents, and no
\* new file at the new path
C24_RenameAllOrNothing ==
    [][ (last.op = "call" /\ last'.op = "renameImage" /\ ~ last'.ok) =>
          /\ IsFileIn(files, last'.target) => IsFileIn(files', last'.target)
          /\ getMetadataPath(last'.target) \in DOMAIN meta =>
               /\ getMetadataPath(last'.target) \in DOMAIN meta'
               /\ meta'[getMetadataPath(last'.target)] = meta[getMetadataPath(last'.target)]
          /\ ~ IsFileIn(files, last'.newPath) => ~ IsFileIn(files', last'.newPath) ]_vars

\* C25 as claimed: when a thumbnail generation finishes for a path whose file
\* a rename or a delete has removed, and invalidated, since the generation
\* started, the thumbnail cache holds no entry for that path
C25_LateWriteKeepsInvalidation ==
    [][ (/\ last'.op = "previewDone"
         /\ pending' # pending
         /\ ~ IsFileIn(files, last'.target)) =>
          \A i \in 1..Len(thumbs') : ~ StartsWith(thumbs'[i].key, last'.target) ]_vars

-----------------------------------------------------------------------------
(* Claims about concurrent saves *)

\* every call has run to its end and no two calls provided the same field
AllSavedDisjoint ==
    /\ Len(last.calls) >= 2
    /\ pending = <<>>
    /\ \A i, j \in 1..Len(last.calls) :
         i # j => DOMAIN last.calls[i] \cap DOMAIN last.calls[j] = {}

\* every field a call provided is in the persisted record at the value provided
AllTookEffect ==
    \A i \in 1..Len(last.calls) : \A f \in DOMAIN last.calls[i] :
        Get(loadMetadata(meta, SaveImagePath), f) = last.calls[i][f]

\* C26: when a record existed before the calls, no call of saveMetadata
\* suspends between its load and its write, and the fields of all the calls,
\* provided they are disjoint, are in the final persisted record
C26_NoLostUpdate ==
    sPrev # NoRecord =>
        /\ pending = <<>>
        /\ AllSavedDisjoint => AllTookEffect

\* two saves of disjoint fields on an existing record have both taken effect
C26_Witness ==
    /\ sPrev # NoRecord
    /\ AllSavedDisjoint
    /\ AllTookEffect

-----------------------------------------------------------------------------
(* Claims about where files are written *)

\* C27 as claimed: after a successful rename the file is at a new location
\* inside the output root, in the directory of its old location, and no file
\* has appeared in any other directory
C27_RenameStaysInDirectory ==
    [][ (steps' = steps + 1 /\ last'.op = "rename" /\ last'.ok) =>
          /\ IsFileIn(files', last'.newPath)
          /\ StartsWith(PathResolve(last'.newPath), PathResolve(OPTIMIZED_DIR) \o <<"/">>)
          /\ PathDirname(PathResolve(last'.newPath))
               = PathDirname(PathResolve(last'.target))
          /\ \A f \in DOMAIN files' \ DOMAIN files :
               PathDirname(f) = PathDirname(PathResolve(last'.target)) ]_vars

\* the files a step wrote: those that are new or have new contents
Written(before, after) ==
    { f \in DOMAIN after : f \notin DOMAIN before \/ after[f] # before[f] }

\* C28 as claimed: every file an optimize request writes lies directly in the
\* date bucket of the archive root or in the date bucket of the derivative
\* root
C28_WritesStayInBuckets ==
    [][ (steps' = steps + 1 /\ last'.op = "optimize") =>
          \A f \in Written(files, files') :
              PathDirname(f) \in { PathResolve(PathJoin(OPTIMIZED_DIR, DateFolder)),
                                   PathResolve(PathJoin(ORIGINALS_DIR, DateFolder)) } ]_vars

\* the derivatives a bulk delete request names: the files its paths resolve to
Named(relativePaths) ==
    { validateImagePath(relativePaths[i], OPTIMIZED_DIR).filePath :
        i \in { j \in 1..Len(relativePaths) :
                  validateImagePath(relativePaths[j], OPTIMIZED_DIR).valid } }

\* the files and record keys that belong to the named derivatives
NamedFiles(relativePaths) ==
    Named(relativePaths) \cup { PathResolve(ToOriginals(n)) : n \in Named(relativePaths) }

NamedKeys(relativePaths) ==
    { getMetadataPath(spelling) :
        spelling \in UNION { Spellings(n) : n \in Named(relativePaths) } }

\* C29 as claimed: a bulk delete leaves every file and every record that does
\* not belong to a derivative named in the request as it was
C29_BulkDeleteFrame ==
    [][ (steps' = steps + 1 /\ last'.op = "bulkDelete" /\ last'.ok) =>
          /\ \A f \in DOMAIN files \ NamedFiles(last'.request) :
               f \in DOMAIN files' /\ files'[f] = files[f]
          /\ \A k \in DOMAIN meta \ NamedKeys(last'.request) :
               k \in DOMAIN meta' /\ meta'[k] = meta[k] ]_vars

\* the derivatives a step wrote over, as optimizeImage spells their paths:
\* files under the optimized root that existed with a record before the step
\* and hold other content after it
Replaced(before, after, store) ==
    { RelToCwd(f) : f \in
        { g \in Written(before, after) :
            /\ g \in DOMAIN before
            /\ StartsWith(g, PathResolve(OPTIMIZED_DIR) \o <<"/">>)
            /\ loadMetadata(store, RelToCwd(g)) # NoRecord } }

\* the technical attributes of a record are those of the file at imagePath
DescribesFile(fl, record, imagePath) ==
    /\ record # NoRecord
    /\ \A field \in {"width", "height", "fileSize", "originalSize"} :
           Get(record, field) =
               extractImageMetadata(fl, imagePath, Get(record, "originalPath").s, 0)[field]

\* C30 as claimed: after an optimize step has written over a derivative that
\* had a record, the record's fileSize, originalSize, width and height are
\* those of the newly written file
C30_RecordDescribesNewFile ==
    [][ (steps' = steps + 1 /\ last'.op \in {"optimize", "optimizeImage"}) =>
          \A imagePath \in Replaced(files, files', meta) :
              DescribesFile(files', loadMetadata(meta', imagePath), imagePath) ]_vars

====
